---- MODULE Spec2Model ----
(***************************************************************************)
(* Progressive rendering schedulers of the Svelte flow package:            *)
(*   - ProgressiveNodeBatcher (dist/lib/utils/progressiveNodeBatcher.js),  *)
(*     the frame-driven node batcher with velocity gating;                 *)
(*   - ProgressiveEdgeBatcher (src/lib/utils/progressiveEdgeBatcher.ts),   *)
(*     the frame-driven edge batcher with the canRender callback;          *)
(*   - the part of SvelteFlowStore that drives both (store `visible`,      *)
(*     flushProgressiveNodes/Edges, resetStoreValues).                     *)
(*                                                                         *)
(* A JavaScript Map is a function from every id to a payload or Absent     *)
(* when its iteration order is never observed (renderedNodes), and a       *)
(* sequence of [id, node] entries in insertion order when it is            *)
(* (pendingNodes).  Payload objects are compared by identity only, so a    *)
(* payload is one of two object identities.  requestAnimationFrame and     *)
(* setTimeout are the sets `frames` and `timers` of outstanding callbacks; *)
(* a callback runs as one atomic step (single-threaded event loop).        *)
(***************************************************************************)
EXTENDS Integers, Sequences, FiniteSets, TLC

(*************************** bounds of the model ***************************)
NumIds == 3
MaxThreshold == 2
\* batchSize and accumulator are fixed-point numbers counted in 1/AccDen
AccDen == 2
MaxBatchNum == 4
MaxFlushBatch == 2
MaxTicks == 4
\* progressiveNodeBatchSize of the store
StoreNodeBatchSize == 2
\* the largest throttleMs, in ticks of the clock
MaxThrottleTicks == 2
\* the pan velocity limit (px/s) of a batcher that tracks velocity
FastLimit == 500
\* the elements given to the StaggeredResizeObserver, the largest batchSize it
\* is given and the longest pendingObserveList
NumElements == 2
MaxObsBatch == 2
MaxListLen == 3

(**************************** program constants ****************************)
STALE_VELOCITY_THRESHOLD_MS == 100
\* the read index beyond which processBatch compacts pendingObserveList
COMPACT_INDEX == 1000

Ids == 1..NumIds
Payloads == {"o1", "o2"}
Absent == "absent"
Null == 0
\* the optional viewportPos argument left out
NoPos == <<>>
\* viewport positions {x, y}; the two are 50 px apart
Positions == {<<0, 0>>, <<30, 40>>}
\* the clock advances in steps of half the stale period
TickMs == STALE_VELOCITY_THRESHOLD_MS \div 2
\* every map a caller can pass as allVisibleNodes
VisibleMapsOf(P) == [Ids -> P \cup {Absent}]
VisibleMaps == VisibleMapsOf(Payloads)
EmptyMap == [id \in Ids |-> Absent]
\* cachedReturnMap is NullMap (null) or <<m>>, the cached Map m
NullMap == <<>>
\* an option that updateConfig is called without
Undefined == -1

VARIABLES
  pendingNodes, renderedNodes, batchSize, threshold, rafId, accumulator,
  isFlushing, cachedReturnMap, cachedPendingMap, dirty,
  maxPanVelocity, lastViewportPos, lastUpdateTime, isPanningFast,
  staleCheckTimeoutId,
  frames, timers, now,
  prevRenderedNodes,
  lastOp, lastVisible, lastNewly, notified, createdMap,
  pendingEdges, renderedEdges, edgeRafId, edgeBatchSize, edgeThreshold,
  edgeAccumulator, canRender, edgeFrames, prevRenderedEdges, edgeLastOp,
  vpRafId, pendingViewport, batcherClass, throttleMs, sinceLastApply,
  vpFrames,
  applied, sinceApplied, appliers, vpLastOp,
  distPendingEdges, distRenderedEdges, distBatchSize, distThreshold,
  distCachedReturnMap, distDirty, distMaxPanVelocity, distLastViewportPos,
  distLastUpdateTime, distIsPanningFast, distStaleCheckTimeoutId, distTimers,
  distPrevRenderedEdges, distLastOp, distNotified, distLastVisible,
  pendingObserveList, pendingObserveSet, pendingUnobserve, obsRafId,
  obsBatchSize, listIndex, obsFrames, observed, obsCalls, obsLastOp, obsArg,
  enqueued,
  storeViewport, lastAssigned, isViewportUpdateFromInternal

nodeVars == <<pendingNodes, renderedNodes, batchSize, threshold, rafId,
              accumulator, isFlushing, cachedReturnMap, cachedPendingMap, dirty,
              maxPanVelocity, lastViewportPos, lastUpdateTime, isPanningFast,
              staleCheckTimeoutId, frames, timers, prevRenderedNodes,
              lastOp, lastVisible, lastNewly, notified, createdMap>>

\* the fields of the ProgressiveEdgeBatcher, its outstanding frame callbacks and
\* the store's _prevRenderedEdges; edgeLastOp names the last operation on it
edgeVars == <<pendingEdges, renderedEdges, edgeRafId, edgeBatchSize,
              edgeThreshold, edgeAccumulator, canRender, edgeFrames,
              prevRenderedEdges, edgeLastOp>>

\* the fields of the ViewportBatcher and its outstanding frame callback.
\* lastApplyTime is only read in `now - this.lastApplyTime`, kept here as
\* sinceLastApply, the time since the stamp, which stops counting at ElapsedCap.
\* lastViewport and lastScheduleTime are written and only read for two locals
\* that are discarded (lines 29-35).  applied is the list of applyFn calls
\* of the last operation, sinceApplied the time since the last applyFn call,
\* appliers who made the last two of them
vpVars == <<vpRafId, pendingViewport, batcherClass, throttleMs,
            sinceLastApply, vpFrames,
            applied, sinceApplied, appliers, vpLastOp>>

\* the fields of the ProgressiveEdgeBatcher of dist/ (the build the store
\* imports), its outstanding stale-velocity timers and the store's
\* _prevRenderedEdges; distLastOp names the last operation on it
\* ("flushAgain" is a flush() that directly follows a flush()) and
\* distNotified tells whether that operation invoked onUpdate;
\* distLastVisible is the allVisibleEdges of the last updateVisibleEdges call
distVars == <<distPendingEdges, distRenderedEdges, distBatchSize,
              distThreshold, distCachedReturnMap, distDirty,
              distMaxPanVelocity, distLastViewportPos, distLastUpdateTime,
              distIsPanningFast, distStaleCheckTimeoutId, distTimers,
              distPrevRenderedEdges, distLastOp, distNotified,
              distLastVisible>>

\* the fields of the StaggeredResizeObserver and its outstanding frame
\* callbacks.  observed is the set of elements the underlying ResizeObserver
\* observes, obsCalls the list of calls the last operation made on it,
\* obsLastOp names that operation and obsArg the element it was given;
\* enqueued lists the elements of pendingObserveSet in the order of the
\* observe() calls that added them
obsVars == <<pendingObserveList, pendingObserveSet, pendingUnobserve, obsRafId,
             obsBatchSize, listIndex, obsFrames, observed, obsCalls,
             obsLastOp, obsArg, enqueued>>

\* the store's _viewport, which the applyFn of its ViewportBatcher and the
\* viewport setter assign, and the value last given to the viewport setter
storeVars == <<storeViewport, lastAssigned, isViewportUpdateFromInternal>>

nonNodeVars == <<edgeVars, vpVars, distVars, obsVars, storeVars>>

vars == <<nodeVars, now, edgeVars, vpVars, distVars, obsVars, storeVars>>

velocityVars == <<maxPanVelocity, lastViewportPos, lastUpdateTime,
                  isPanningFast, staleCheckTimeoutId, timers>>

(******************************** helpers **********************************)
Has(m, id) == m[id] # Absent
Keys(m) == {id \in Ids : m[id] # Absent}
PendingIds(p) == {p[i].id : i \in 1..Len(p)}
Min(a, b) == IF a < b THEN a ELSE b

RECURSIVE AscSeq(_)
\* the ids of S in the iteration order of allVisibleNodes (nodeLookup order)
AscSeq(S) ==
  IF S = {} THEN <<>>
  ELSE LET m == CHOOSE x \in S : \A y \in S : x <= y
       IN <<m>> \o AscSeq(S \ {m})

\* requestAnimationFrame / setTimeout return a handle not in use
NextHandle(used) == CHOOSE h \in 1..(Cardinality(used) + 1) : h \notin used
FrameHandles == {f.handle : f \in frames}
TimerHandles == {t.handle : t \in timers}
\* a cancelAnimationFrame that cancels nothing
cancelAnimationFrame_Noop(fr, h) == fr

cancelAnimationFrame(fr, h) == {f \in fr : f.handle # h}
clearTimeout(tm, h) == {t \in tm : t.handle # h}

(************************ ProgressiveNodeBatcher ***************************)
Abs(x) == IF x < 0 THEN -x ELSE x
\* Math.sqrt(n) for the distances between Positions, which are whole numbers
Sqrt(n, bound) == CHOOSE r \in 0..bound : r * r <= n /\ n < (r + 1) * (r + 1)

\* distance / dt > maxPanVelocity with dt = dtMs / 1000 seconds, multiplied out
PanningFast(pos, last, dtMs, maxV) ==
  LET dx == pos[1] - last[1]
      dy == pos[2] - last[2]
      distance == Sqrt(dx * dx + dy * dy, Abs(dx) + Abs(dy))
  IN distance * 1000 > maxV * dtMs

\* newlyVisible computed without the pendingNodes.has(id) test
NewlyVisible_IgnoringPending(V, prev, rendered, pending) ==
  {id \in Ids : Has(V, id) /\ ~Has(prev, id) /\ ~Has(rendered, id)}

\* ids of allVisibleNodes in none of previouslyRenderedNodes, renderedNodes, pendingNodes
NewlyVisible(V, prev, rendered, pending) ==
  {id \in Ids : Has(V, id) /\ ~Has(prev, id) /\ ~Has(rendered, id)
                /\ id \notin PendingIds(pending)}

\* renderedNodes.delete(id) for every id not in allVisibleNodes
DropInvisibleRendered(V, rendered) ==
  [id \in Ids |-> IF Has(V, id) THEN rendered[id] ELSE Absent]

\* the loop over pendingNodes.keys() left out
DropInvisiblePending_Kept(V, pending) == pending

\* pendingNodes.delete(id) for every id not in allVisibleNodes
DropInvisiblePending(V, pending) ==
  SelectSeq(pending, LAMBDA e : Has(V, e.id))

\* renderedNodes.set(id, node) where the reference changed
RefreshRendered(V, rendered) ==
  [id \in Ids |-> IF Has(rendered, id) THEN V[id] ELSE Absent]

\* a refresh that deletes the entry and sets it again: it moves to the end
RefreshPending_Reinsert(V, pending) ==
  LET same == SelectSeq(pending, LAMBDA e : V[e.id] = e.node)
      changed == SelectSeq(pending, LAMBDA e : V[e.id] # e.node)
  IN same \o [i \in 1..Len(changed) |->
                [id |-> changed[i].id, node |-> V[changed[i].id]]]

\* pendingNodes.set(id, node) where the reference changed: the entry keeps its place
RefreshPending(V, pending) ==
  [i \in 1..Len(pending) |-> [id |-> pending[i].id, node |-> V[pending[i].id]]]

\* for (const [id, node] of newlyVisible) pendingNodes.set(id, node)
QueueNewly(V, pending, newly) ==
  pending \o [i \in 1..Cardinality(newly) |->
                [id |-> AscSeq(newly)[i], node |-> V[AscSeq(newly)[i]]]]

\* the immediate path without its renderedNodes.set
AdmitNewly_Skipped(V, rendered, newly) == rendered

\* for (const [id, node] of newlyVisible) renderedNodes.set(id, node)
AdmitNewly(V, rendered, newly) ==
  [id \in Ids |-> IF id \in newly THEN V[id] ELSE rendered[id]]

\* the threshold test off by one
ExceedsThreshold_OffByOne(newly, T) == Cardinality(newly) > T + 1

\* newlyVisible.size > this.threshold
ExceedsThreshold(newly, T) == Cardinality(newly) > T

\* scheduleNextBatch(): the guard and the requestAnimationFrame call
scheduleNextBatch(raf, fr, pending) ==
  IF raf # Null \/ Len(pending) = 0
  THEN [rafId |-> raf, frames |-> fr]
  ELSE LET h == NextHandle({f.handle : f \in fr})
       IN [rafId |-> h,
           frames |-> fr \cup {[handle |-> h, kind |-> "batch", size |-> 0]}]

\* scheduleStaleVelocityCheck(): the guard and the setTimeout call
scheduleStaleVelocityCheck(tid, tm) ==
  IF tid # Null
  THEN [id |-> tid, timers |-> tm]
  ELSE LET h == NextHandle({t.handle : t \in tm})
       IN [id |-> h,
           timers |-> tm \cup {[handle |-> h,
                                due |-> now + STALE_VELOCITY_THRESHOLD_MS]}]

\* Math.ceil in place of Math.floor
NodesToAdd_Ceil(acc, size) == (acc + size + AccDen - 1) \div AccDen

\* Math.floor(this.accumulator) after this.accumulator += this.batchSize
NodesToAdd(acc, size) == (acc + size) \div AccDen

\* the callback without its pendingNodes.delete(id)
Rest_KeepAll(pending, n) == pending

\* the entries a frame callback moves: the first n of pendingNodes
Front(pending, n) == SubSeq(pending, 1, Min(n, Len(pending)))
Rest(pending, n) == SubSeq(pending, Min(n, Len(pending)) + 1, Len(pending))

\* renderedNodes replaced by the moved entries
Admit_Replacing(rendered, moved) ==
  [id \in Ids |->
     IF \E i \in 1..Len(moved) : moved[i].id = id
     THEN (CHOOSE e \in {moved[i] : i \in 1..Len(moved)} : e.id = id).node
     ELSE Absent]

\* renderedNodes.set(id, node) for every moved entry
Admit(rendered, moved) ==
  [id \in Ids |->
     IF \E i \in 1..Len(moved) : moved[i].id = id
     THEN (CHOOSE e \in {moved[i] : i \in 1..Len(moved)} : e.id = id).node
     ELSE rendered[id]]

\* a batcher that takes the progressive path whatever its threshold
ProgressiveDisabled_Never(T) == FALSE

\* line 72: this.threshold === 0
ProgressiveDisabled(T) == T = 0

\* the test of line 172 without its this.dirty disjunct
NeedsNewMap_IgnoringDirty(hasChanges, d, cached) ==
  hasChanges \/ cached = NullMap

\* line 172: hasChanges || this.dirty || this.cachedReturnMap === null
NeedsNewMap(hasChanges, d, cached) == hasChanges \/ d \/ cached = NullMap

\* the over-threshold path cancelling the frame also during a gradual flush
CancelsFrame_WhileFlushing(over, flushing, raf) == over /\ raf # Null

\* line 127: !this.isFlushing && this.rafId !== null, on the over-threshold path
CancelsFrame(over, flushing, raf) == over /\ ~flushing /\ raf # Null

\* updateVisibleNodes, lines 52-70: velocity tracking
TrackVelocity(pos) == pos # NoPos /\ maxPanVelocity > 0
MeasuredFast(pos) ==
  IF TrackVelocity(pos) /\ lastViewportPos # NoPos /\ lastUpdateTime > 0
     /\ now - lastUpdateTime > 0
  THEN PanningFast(pos, lastViewportPos, now - lastUpdateTime, maxPanVelocity)
  ELSE isPanningFast

\* updateVisibleNodes(allVisibleNodes, previouslyRenderedNodes, viewportPos), called
\* as the store calls it: previouslyRenderedNodes is the map the preceding call
\* returned, and the returned map is kept for the next call
updateVisibleNodes(V, pos) ==
  \E fast \in {MeasuredFast(pos)},
     newly \in {NewlyVisible(V, prevRenderedNodes, renderedNodes, pendingNodes)},
     rd1 \in {DropInvisibleRendered(V, renderedNodes)},
     pd1 \in {DropInvisiblePending(V, pendingNodes)} :
  \E rd2 \in {RefreshRendered(V, rd1)},
     pd2 \in {RefreshPending(V, pd1)},
     over \in {ExceedsThreshold(newly, threshold)} :
  \E pd3 \in {IF over THEN QueueNewly(V, pd2, newly) ELSE pd2},
     rd3 \in {IF ~over /\ newly # {} THEN AdmitNewly(V, rd2, newly) ELSE rd2},
     cancel \in {CancelsFrame(over, isFlushing, rafId)},
     fresh \in {NeedsNewMap(\/ rd1 # renderedNodes \/ pd1 # pendingNodes
                            \/ rd2 # rd1 \/ pd2 # pd1 \/ newly # {},
                            dirty, cachedReturnMap)} :
  LET raf1 == IF cancel THEN Null ELSE rafId
      fr1 == IF cancel THEN cancelAnimationFrame(frames, rafId) ELSE frames
      s1 == IF over /\ ~isFlushing /\ ~fast
            THEN scheduleNextBatch(raf1, fr1, pd3)
            ELSE [rafId |-> raf1, frames |-> fr1]
      t1 == IF over /\ ~(~isFlushing /\ ~fast) /\ fast
            THEN scheduleStaleVelocityCheck(staleCheckTimeoutId, timers)
            ELSE [id |-> staleCheckTimeoutId, timers |-> timers]
      s2 == IF Len(pd3) > 0 /\ ~fast /\ ~isFlushing /\ s1.rafId = Null
            THEN scheduleNextBatch(s1.rafId, s1.frames, pd3)
            ELSE s1
  IN /\ lastViewportPos' = IF TrackVelocity(pos) THEN pos ELSE lastViewportPos
     /\ lastUpdateTime' = IF TrackVelocity(pos) THEN now ELSE lastUpdateTime
     /\ isPanningFast' = fast
     /\ IF ProgressiveDisabled(threshold)
        THEN /\ renderedNodes' = V
             /\ prevRenderedNodes' = V
             /\ createdMap' = FALSE
             /\ lastNewly' = {}
             /\ UNCHANGED <<pendingNodes, rafId, frames, accumulator, timers,
                            staleCheckTimeoutId, cachedReturnMap,
                            cachedPendingMap, dirty>>
        ELSE /\ renderedNodes' = rd3
             /\ pendingNodes' = pd3
             /\ \E s \in {s2} : rafId' = s.rafId /\ frames' = s.frames
             /\ accumulator' = IF cancel THEN 0 ELSE accumulator
             /\ \E t \in {t1} : staleCheckTimeoutId' = t.id /\ timers' = t.timers
             /\ cachedReturnMap' = IF fresh THEN <<rd3>> ELSE cachedReturnMap
             /\ cachedPendingMap' = IF fresh THEN pd3 ELSE cachedPendingMap
             /\ dirty' = IF fresh THEN FALSE ELSE dirty
             /\ prevRenderedNodes' = IF fresh THEN rd3 ELSE cachedReturnMap[1]
             /\ createdMap' = fresh
             /\ lastNewly' = newly
     /\ lastOp' = "update"
     /\ lastVisible' = V
     /\ notified' = FALSE
     /\ UNCHANGED <<threshold, isFlushing, maxPanVelocity, now>>

Node_updateVisibleNodes(V, pos) ==
  updateVisibleNodes(V, pos) /\ UNCHANGED <<batchSize, nonNodeVars>>

\* the callback scheduleNextBatch hands to requestAnimationFrame, lines 184-220
Node_batchCallback(f) ==
  LET acc1 == accumulator + batchSize
      nodesToAdd == NodesToAdd(accumulator, batchSize)
      moved == Front(pendingNodes, nodesToAdd)
      pd == Rest(pendingNodes, nodesToAdd)
      s == scheduleNextBatch(Null, frames \ {f}, pd)
  IN /\ f \in frames /\ f.kind = "batch"
     /\ accumulator' = acc1 - nodesToAdd * AccDen
     /\ renderedNodes' = Admit(renderedNodes, moved)
     /\ pendingNodes' = pd
     /\ dirty' = IF Len(moved) > 0 THEN TRUE ELSE dirty
     /\ cachedPendingMap' = IF Len(moved) > 0 THEN pd ELSE cachedPendingMap
     /\ notified' = (Len(moved) > 0)
     /\ rafId' = s.rafId
     /\ frames' = s.frames
     /\ lastOp' = "batch"
     /\ createdMap' = FALSE
     /\ lastNewly' = {}
     /\ UNCHANGED <<batchSize, threshold, isFlushing, cachedReturnMap,
                    velocityVars, prevRenderedNodes, lastVisible, now, nonNodeVars>>

\* flushGradually(batchSize) without the cancelAnimationFrame of lines 304-307
startFlushGradually_NoCancel(raf, fr, pending, b) ==
  LET h == NextHandle({f.handle : f \in fr})
  IN IF Len(pending) = 0
     THEN [rafId |-> Null, frames |-> fr, isFlushing |-> FALSE]
     ELSE [rafId |-> h,
           frames |-> fr \cup {[handle |-> h, kind |-> "gradual", size |-> b]},
           isFlushing |-> TRUE]

\* flushGradually(batchSize), lines 302-314: up to the requestAnimationFrame call
startFlushGradually(raf, fr, pending, b) ==
  LET fr0 == IF raf # Null THEN cancelAnimationFrame(fr, raf) ELSE fr
      h == NextHandle({f.handle : f \in fr0})
  IN IF Len(pending) = 0
     THEN [rafId |-> Null, frames |-> fr0, isFlushing |-> FALSE]
     ELSE [rafId |-> h,
           frames |-> fr0 \cup {[handle |-> h, kind |-> "gradual", size |-> b]},
           isFlushing |-> TRUE]

Node_flushGradually(b) ==
  LET s == startFlushGradually(rafId, frames, pendingNodes, b)
  IN /\ rafId' = s.rafId
     /\ frames' = s.frames
     /\ isFlushing' = s.isFlushing
     /\ lastOp' = "flushGradually"
     /\ createdMap' = FALSE
     /\ lastNewly' = {}
     /\ notified' = FALSE
     /\ UNCHANGED <<pendingNodes, renderedNodes, batchSize, threshold,
                    accumulator, cachedReturnMap, cachedPendingMap, dirty,
                    velocityVars, prevRenderedNodes, lastVisible, now, nonNodeVars>>

\* the callback flushGradually hands to requestAnimationFrame, lines 315-344
Node_gradualCallback(f) ==
  LET moved == Front(pendingNodes, f.size)
      pd == Rest(pendingNodes, f.size)
      s == IF Len(pd) > 0
           THEN startFlushGradually(Null, frames \ {f}, pd, f.size)
           ELSE [rafId |-> Null, frames |-> frames \ {f}, isFlushing |-> FALSE]
  IN /\ f \in frames /\ f.kind = "gradual"
     /\ renderedNodes' = Admit(renderedNodes, moved)
     /\ pendingNodes' = pd
     /\ dirty' = IF Len(moved) > 0 THEN TRUE ELSE dirty
     /\ cachedPendingMap' = IF Len(moved) > 0 THEN pd ELSE cachedPendingMap
     /\ notified' = (Len(moved) > 0)
     /\ rafId' = s.rafId
     /\ frames' = s.frames
     /\ isFlushing' = s.isFlushing
     /\ lastOp' = "gradual"
     /\ createdMap' = FALSE
     /\ lastNewly' = {}
     /\ UNCHANGED <<batchSize, threshold, accumulator, cachedReturnMap,
                    velocityVars, prevRenderedNodes, lastVisible, now, nonNodeVars>>

\* flush(), lines 280-297
ProgressiveNodeBatcher_flush ==
  /\ rafId' = Null
  /\ frames' = IF rafId # Null THEN cancelAnimationFrame(frames, rafId) ELSE frames
  /\ IF Len(pendingNodes) = 0
     THEN /\ notified' = FALSE
          /\ UNCHANGED <<pendingNodes, renderedNodes, dirty, cachedPendingMap>>
     ELSE /\ renderedNodes' = Admit(renderedNodes, pendingNodes)
          /\ pendingNodes' = <<>>
          /\ dirty' = TRUE
          /\ cachedPendingMap' = <<>>
          /\ notified' = TRUE
  /\ lastOp' = "flush"
  /\ createdMap' = FALSE
  /\ lastNewly' = {}
  /\ UNCHANGED <<batchSize, threshold, accumulator, isFlushing, cachedReturnMap,
                 velocityVars, prevRenderedNodes, lastVisible, now>>

Node_flush == ProgressiveNodeBatcher_flush /\ UNCHANGED nonNodeVars

\* reset(), lines 349-370, as resetStoreValues calls it: the store keeps its
\* _prevRenderedNodes
ProgressiveNodeBatcher_reset ==
  /\ rafId' = Null
  /\ frames' = IF rafId # Null THEN cancelAnimationFrame(frames, rafId) ELSE frames
  /\ staleCheckTimeoutId' = Null
  /\ timers' = IF staleCheckTimeoutId # Null
                THEN clearTimeout(timers, staleCheckTimeoutId) ELSE timers
  /\ pendingNodes' = <<>>
  /\ renderedNodes' = EmptyMap
  /\ cachedReturnMap' = NullMap
  /\ cachedPendingMap' = <<>>
  /\ dirty' = TRUE
  /\ accumulator' = 0
  /\ isFlushing' = FALSE
  /\ lastViewportPos' = NoPos
  /\ lastUpdateTime' = 0
  /\ isPanningFast' = FALSE
  /\ lastOp' = "reset"
  /\ createdMap' = FALSE
  /\ lastNewly' = {}
  /\ notified' = FALSE
  /\ UNCHANGED <<batchSize, threshold, maxPanVelocity, prevRenderedNodes,
                 lastVisible, now>>

Node_reset == ProgressiveNodeBatcher_reset /\ UNCHANGED nonNodeVars

\* a destroy() that leaves the scheduled frame callback alone
CancelOnDestroy_Skipped(raf, fr) == fr

\* destroy(), lines 408-411: cancelAnimationFrame(this.rafId)
CancelOnDestroy(raf, fr) ==
  IF raf # Null THEN cancelAnimationFrame(fr, raf) ELSE fr

\* destroy(), lines 407-426: as reset(), but the accumulator is kept
Node_destroy ==
  /\ rafId' = Null
  /\ frames' = CancelOnDestroy(rafId, frames)
  /\ staleCheckTimeoutId' = Null
  /\ timers' = IF staleCheckTimeoutId # Null
                THEN clearTimeout(timers, staleCheckTimeoutId) ELSE timers
  /\ pendingNodes' = <<>>
  /\ renderedNodes' = EmptyMap
  /\ cachedReturnMap' = NullMap
  /\ cachedPendingMap' = <<>>
  /\ dirty' = TRUE
  /\ isFlushing' = FALSE
  /\ lastViewportPos' = NoPos
  /\ lastUpdateTime' = 0
  /\ isPanningFast' = FALSE
  /\ lastOp' = "destroy"
  /\ createdMap' = FALSE
  /\ lastNewly' = {}
  /\ notified' = FALSE
  /\ UNCHANGED <<batchSize, threshold, accumulator, maxPanVelocity,
                 prevRenderedNodes, lastVisible, now, nonNodeVars>>

\* updateConfig(options), lines 374-384
Node_updateConfig(options) ==
  /\ threshold' = IF options.threshold # Undefined
                   THEN options.threshold ELSE threshold
  /\ batchSize' = IF options.batchSize # Undefined
                   THEN options.batchSize ELSE batchSize
  /\ maxPanVelocity' = IF options.maxPanVelocity # Undefined
                        THEN options.maxPanVelocity ELSE maxPanVelocity
  /\ lastOp' = "updateConfig"
  /\ createdMap' = FALSE
  /\ lastNewly' = {}
  /\ notified' = FALSE
  /\ UNCHANGED <<pendingNodes, renderedNodes, rafId, accumulator, isFlushing,
                 cachedReturnMap, cachedPendingMap, dirty, lastViewportPos,
                 lastUpdateTime, isPanningFast, staleCheckTimeoutId, frames,
                 timers, prevRenderedNodes, lastVisible, now, nonNodeVars>>

\* the callback scheduleStaleVelocityCheck hands to setTimeout, lines 232-256
Node_staleCallback(t) ==
  LET stale == now - lastUpdateTime >= STALE_VELOCITY_THRESHOLD_MS
      s == IF stale /\ Len(pendingNodes) > 0 /\ ~isFlushing /\ rafId = Null
           THEN scheduleNextBatch(rafId, frames, pendingNodes)
           ELSE [rafId |-> rafId, frames |-> frames]
      again == scheduleStaleVelocityCheck(Null, timers \ {t})
  IN /\ t \in timers /\ now >= t.due
     /\ isPanningFast' = IF stale THEN FALSE ELSE isPanningFast
     /\ rafId' = s.rafId
     /\ frames' = s.frames
     /\ staleCheckTimeoutId' = IF stale THEN Null ELSE again.id
     /\ timers' = IF stale THEN timers \ {t} ELSE again.timers
     /\ lastOp' = "stale"
     /\ createdMap' = FALSE
     /\ lastNewly' = {}
     /\ notified' = FALSE
     /\ UNCHANGED <<pendingNodes, renderedNodes, batchSize, threshold,
                    accumulator, isFlushing, cachedReturnMap, cachedPendingMap,
                    dirty, maxPanVelocity, lastViewportPos, lastUpdateTime,
                    prevRenderedNodes, lastVisible, now, nonNodeVars>>

\* performance.now() advances
Tick ==
  /\ now < MaxTicks * TickMs
  /\ now' = now + TickMs
  /\ UNCHANGED <<nodeVars, nonNodeVars>>

(************************ ProgressiveEdgeBatcher ***************************)
\* The edges of the flow: edge e joins node e (edge.source) to node e + 1
\* (edge.target).  An edge Map is its key set (renderedEdges) or its keys in
\* insertion order (pendingEdges): the layouted edge of an id is not observed.
EdgeIds == 1..(NumIds - 1)
Source(e) == e
Target(e) == e + 1
\* canRender is null or a callback; the callback its comment describes answers
\* whether both nodes of the edge are rendered by the node batcher
CanRenderValues == {"null", "nodesRendered"}
CanRender(cr, rendered, e) ==
  cr = "null" \/ (Has(rendered, Source(e)) /\ Has(rendered, Target(e)))

SeqIds(q) == {q[i] : i \in 1..Len(q)}

\* getLayoutedEdges with onlyRenderVisible: the edges isEdgeVisible keeps.  An
\* edge with both nodes in the viewport is kept; any other edge may be, as its
\* box can cross the viewport
VisibleEdgeSets(V) ==
  {E \in SUBSET EdgeIds :
     \A e \in EdgeIds : (Has(V, Source(e)) /\ Has(V, Target(e))) => e \in E}

\* ids of allVisibleEdges in neither previouslyRenderedEdges nor renderedEdges
NewlyVisibleEdges(E, prev, rendered) == {e \in E : e \notin prev /\ e \notin rendered}

\* pendingEdges.set(id, edge) for the newly visible: a key already there keeps
\* its place
QueueEdges(pending, newly) ==
  pending \o AscSeq(newly \ SeqIds(pending))

\* scheduleNextBatch() of the edge batcher: the guard and the requestAnimationFrame call
Edge_scheduleNextBatch(raf, fr, pending) ==
  IF raf # Null \/ Len(pending) = 0
  THEN [rafId |-> raf, frames |-> fr]
  ELSE LET h == NextHandle({f.handle : f \in fr})
       IN [rafId |-> h, frames |-> fr \cup {[handle |-> h]}]

\* updateVisibleEdges(allVisibleEdges, previouslyRenderedEdges), called as the
\* store calls it with its _prevRenderedEdges
updateVisibleEdges(E) ==
  /\ edgeLastOp' = "update"
  /\ IF edgeThreshold = 0
     THEN /\ renderedEdges' = E
          /\ prevRenderedEdges' = E
          /\ UNCHANGED <<pendingEdges, edgeRafId, edgeFrames, edgeBatchSize,
                         edgeThreshold, edgeAccumulator, canRender>>
     ELSE LET newly == NewlyVisibleEdges(E, prevRenderedEdges, renderedEdges)
              rd1 == renderedEdges \cap E
              pd1 == SelectSeq(pendingEdges, LAMBDA e : e \in E)
              over == Cardinality(newly) > edgeThreshold
              pd2 == IF over THEN QueueEdges(pd1, newly) ELSE pd1
              rd2 == IF over THEN rd1 ELSE rd1 \cup newly
              s == IF over THEN Edge_scheduleNextBatch(edgeRafId, edgeFrames, pd2)
                   ELSE [rafId |-> edgeRafId, frames |-> edgeFrames]
          IN /\ renderedEdges' = rd2
             /\ pendingEdges' = pd2
             /\ edgeRafId' = s.rafId
             /\ edgeFrames' = s.frames
             /\ prevRenderedEdges' = rd2
             /\ UNCHANGED <<edgeBatchSize, edgeThreshold, edgeAccumulator, canRender>>

\* a batch loop in which an edge canRender rejects uses up one unit of budget
RECURSIVE TakeRenderable_Consuming(_, _, _, _)
TakeRenderable_Consuming(pending, n, cr, rendered) ==
  IF n = 0 \/ pending = <<>> THEN <<>>
  ELSE IF CanRender(cr, rendered, Head(pending))
       THEN <<Head(pending)>>
              \o TakeRenderable_Consuming(Tail(pending), n - 1, cr, rendered)
       ELSE TakeRenderable_Consuming(Tail(pending), n - 1, cr, rendered)

\* the first n entries of pendingEdges that canRender lets through
RECURSIVE TakeRenderable(_, _, _, _)
TakeRenderable(pending, n, cr, rendered) ==
  IF n = 0 \/ pending = <<>> THEN <<>>
  ELSE IF CanRender(cr, rendered, Head(pending))
       THEN <<Head(pending)>> \o TakeRenderable(Tail(pending), n - 1, cr, rendered)
       ELSE TakeRenderable(Tail(pending), n, cr, rendered)

\* the callback scheduleNextBatch hands to requestAnimationFrame, lines 98-132
Edge_batchCallback(f) ==
  LET edgesToAdd == NodesToAdd(edgeAccumulator, edgeBatchSize)
      moved == SeqIds(TakeRenderable(pendingEdges, edgesToAdd, canRender,
                                     renderedNodes))
      pd == SelectSeq(pendingEdges, LAMBDA e : e \notin moved)
      s == Edge_scheduleNextBatch(Null, edgeFrames \ {f}, pd)
  IN /\ f \in edgeFrames
     /\ edgeAccumulator' = edgeAccumulator + edgeBatchSize - edgesToAdd * AccDen
     /\ renderedEdges' = renderedEdges \cup moved
     /\ pendingEdges' = pd
     /\ edgeRafId' = s.rafId
     /\ edgeFrames' = s.frames
     /\ edgeLastOp' = "batch"
     /\ UNCHANGED <<edgeBatchSize, edgeThreshold, canRender, prevRenderedEdges>>
     /\ UNCHANGED <<nodeVars, now, vpVars, distVars, obsVars, storeVars>>

\* flush() of the edge batcher, lines 153-173.  The store calls it right after
\* the node batcher's flush(), so canRender sees the node maps that flush left
ProgressiveEdgeBatcher_flush ==
  LET moved == {e \in SeqIds(pendingEdges) : CanRender(canRender, renderedNodes', e)}
  IN /\ edgeRafId' = Null
     /\ edgeFrames' = IF edgeRafId # Null
                       THEN cancelAnimationFrame(edgeFrames, edgeRafId)
                       ELSE edgeFrames
     /\ renderedEdges' = renderedEdges \cup moved
     /\ pendingEdges' = SelectSeq(pendingEdges, LAMBDA e : e \notin moved)
     /\ edgeLastOp' = "flush"
     /\ UNCHANGED <<edgeBatchSize, edgeThreshold, edgeAccumulator, canRender,
                    prevRenderedEdges>>

\* reset() of the edge batcher, lines 178-186
ProgressiveEdgeBatcher_reset ==
  /\ edgeRafId' = Null
  /\ edgeFrames' = IF edgeRafId # Null
                    THEN cancelAnimationFrame(edgeFrames, edgeRafId)
                    ELSE edgeFrames
  /\ pendingEdges' = <<>>
  /\ renderedEdges' = {}
  /\ edgeAccumulator' = 0
  /\ edgeLastOp' = "reset"
  /\ UNCHANGED <<edgeBatchSize, edgeThreshold, canRender, prevRenderedEdges>>

(************* ProgressiveEdgeBatcher of dist/ (call-driven) ****************)
\* This build of the edge batcher schedules no animation frame: pending edges
\* are admitted by later updateVisibleEdges, flush and flushGradually calls.
\* Its Maps are modelled as the node batcher's, over the same ids.

\* updateVisibleEdges, lines 43-57: velocity tracking
Dist_MeasuredFast(pos) ==
  IF pos # NoPos /\ distMaxPanVelocity > 0 /\ distLastViewportPos # NoPos
     /\ distLastUpdateTime > 0 /\ now - distLastUpdateTime > 0
  THEN PanningFast(pos, distLastViewportPos, now - distLastUpdateTime,
                   distMaxPanVelocity)
  ELSE distIsPanningFast

\* the loops of lines 101-111 and 129-138 and of flushGradually: entries are
\* taken from the front of pendingEdges until added >= size
Dist_Taken(pending, size) == Front(pending, size)
Dist_Left(pending, size) == Rest(pending, size)

\* flush(), lines 210-211: this.dirty = true; this.onUpdate?.()
Dist_FlushNotifies(pending) == TRUE

\* updateVisibleEdges(allVisibleEdges, previouslyRenderedEdges, viewportPos),
\* lines 41-158, called as the store calls it: previouslyRenderedEdges is the
\* map the preceding call returned
Dist_updateVisibleEdges(V, pos) ==
  \E fast \in {Dist_MeasuredFast(pos)},
     track \in {pos # NoPos /\ distMaxPanVelocity > 0} :
  /\ distIsPanningFast' = fast
  /\ distLastViewportPos' = IF track THEN pos ELSE distLastViewportPos
  /\ distLastUpdateTime' = IF track THEN now ELSE distLastUpdateTime
  /\ distLastOp' = "update"
  /\ distLastVisible' = V
  /\ distNotified' = FALSE
  /\ IF distThreshold = 0
     THEN /\ distRenderedEdges' = V
          /\ distPrevRenderedEdges' = V
          /\ UNCHANGED <<distPendingEdges, distCachedReturnMap, distDirty,
                         distStaleCheckTimeoutId, distTimers>>
     ELSE \E newly \in {NewlyVisible(V, distPrevRenderedEdges,
                                     distRenderedEdges, distPendingEdges)},
             rd1 \in {DropInvisibleRendered(V, distRenderedEdges)},
             pd1 \in {DropInvisiblePending(V, distPendingEdges)} :
          \E rd2 \in {RefreshRendered(V, rd1)},
             first \in {Len(pd1) > 0 /\ ~fast},
             over \in {ExceedsThreshold(newly, distThreshold)} :
          \E rd3 \in {IF first THEN Admit(rd2, Dist_Taken(pd1, distBatchSize))
                      ELSE rd2},
             pd2 \in {IF first THEN Dist_Left(pd1, distBatchSize) ELSE pd1} :
          \E pd3 \in {IF over THEN QueueNewly(V, pd2, newly) ELSE pd2} :
          \E rd4 \in {IF over /\ ~fast
                      THEN Admit(rd3, Dist_Taken(pd3, distBatchSize))
                      ELSE IF ~over /\ newly # {}
                           THEN AdmitNewly(V, rd3, newly) ELSE rd3},
             pd4 \in {IF over /\ ~fast THEN Dist_Left(pd3, distBatchSize)
                      ELSE pd3},
             check \in {fast /\ (Len(pd1) > 0 \/ over)} :
          LET hasChanges == \/ rd1 # distRenderedEdges \/ rd2 # rd1
                            \/ (first /\ Len(pd1) > 0)
                            \/ (over /\ ~fast /\ Len(pd3) > 0)
                            \/ (~over /\ newly # {})
              fresh == hasChanges \/ distDirty \/ distCachedReturnMap = NullMap
              ret == IF fresh THEN <<rd4>> ELSE distCachedReturnMap
              t == IF check
                   THEN scheduleStaleVelocityCheck(distStaleCheckTimeoutId,
                                                   distTimers)
                   ELSE [id |-> distStaleCheckTimeoutId, timers |-> distTimers]
          IN /\ distRenderedEdges' = rd4
             /\ distPendingEdges' = pd4
             /\ distCachedReturnMap' = ret
             /\ distDirty' = IF fresh THEN FALSE ELSE distDirty
             /\ distPrevRenderedEdges' = ret[1]
             /\ distStaleCheckTimeoutId' = t.id
             /\ distTimers' = t.timers
  /\ UNCHANGED <<distBatchSize, distThreshold, distMaxPanVelocity>>
  /\ UNCHANGED <<nodeVars, now, edgeVars, vpVars, obsVars, storeVars>>

\* the callback scheduleStaleVelocityCheck hands to setTimeout, lines 169-188
Dist_staleCallback(t) ==
  LET stale == now - distLastUpdateTime >= STALE_VELOCITY_THRESHOLD_MS
      again == scheduleStaleVelocityCheck(Null, distTimers \ {t})
      notify == stale /\ Len(distPendingEdges) > 0
  IN /\ t \in distTimers /\ now >= t.due
     /\ distIsPanningFast' = IF stale THEN FALSE ELSE distIsPanningFast
     /\ distDirty' = IF notify THEN TRUE ELSE distDirty
     /\ distNotified' = notify
     /\ distStaleCheckTimeoutId' = IF stale THEN Null ELSE again.id
     /\ distTimers' = IF stale THEN distTimers \ {t} ELSE again.timers
     /\ distLastOp' = "stale"
     /\ UNCHANGED <<distPendingEdges, distRenderedEdges, distBatchSize,
                    distThreshold, distCachedReturnMap, distMaxPanVelocity,
                    distLastViewportPos, distLastUpdateTime,
                    distPrevRenderedEdges, distLastVisible>>
     /\ UNCHANGED <<nodeVars, now, edgeVars, vpVars, obsVars, storeVars>>

\* flush(), lines 205-212
Dist_flush ==
  \E notify \in {Dist_FlushNotifies(distPendingEdges)} :
  /\ distRenderedEdges' = Admit(distRenderedEdges, distPendingEdges)
  /\ distPendingEdges' = <<>>
  /\ distDirty' = IF notify THEN TRUE ELSE distDirty
  /\ distNotified' = notify
  /\ distLastOp' = IF distLastOp \in {"flush", "flushAgain"}
                   THEN "flushAgain" ELSE "flush"
  /\ UNCHANGED <<distBatchSize, distThreshold, distCachedReturnMap,
                 distMaxPanVelocity, distLastViewportPos, distLastUpdateTime,
                 distIsPanningFast, distStaleCheckTimeoutId, distTimers,
                 distPrevRenderedEdges, distLastVisible>>
  /\ UNCHANGED <<nodeVars, now, edgeVars, vpVars, obsVars, storeVars>>

\* flushGradually(batchSize), lines 217-231
Dist_flushGradually(b) ==
  \E moved \in {Dist_Taken(distPendingEdges, b)} :
  /\ distRenderedEdges' = Admit(distRenderedEdges, moved)
  /\ distPendingEdges' = Dist_Left(distPendingEdges, b)
  /\ distDirty' = IF Len(moved) > 0 THEN TRUE ELSE distDirty
  /\ distNotified' = (Len(moved) > 0)
  /\ distLastOp' = "flushGradually"
  /\ UNCHANGED <<distBatchSize, distThreshold, distCachedReturnMap,
                 distMaxPanVelocity, distLastViewportPos, distLastUpdateTime,
                 distIsPanningFast, distStaleCheckTimeoutId, distTimers,
                 distPrevRenderedEdges, distLastVisible>>
  /\ UNCHANGED <<nodeVars, now, edgeVars, vpVars, obsVars, storeVars>>

\* reset(), lines 235-249
Dist_reset ==
  /\ distTimers' = IF distStaleCheckTimeoutId # Null
                   THEN clearTimeout(distTimers, distStaleCheckTimeoutId)
                   ELSE distTimers
  /\ distStaleCheckTimeoutId' = Null
  /\ distPendingEdges' = <<>>
  /\ distRenderedEdges' = EmptyMap
  /\ distCachedReturnMap' = NullMap
  /\ distDirty' = TRUE
  /\ distLastViewportPos' = NoPos
  /\ distLastUpdateTime' = 0
  /\ distIsPanningFast' = FALSE
  /\ distNotified' = FALSE
  /\ distLastOp' = "reset"
  /\ UNCHANGED <<distBatchSize, distThreshold, distMaxPanVelocity,
                 distPrevRenderedEdges, distLastVisible>>
  /\ UNCHANGED <<nodeVars, now, edgeVars, vpVars, obsVars, storeVars>>

(***************************** ViewportBatcher *****************************)
Viewports == {"v1", "v2"}
\* pendingViewport = null
NoViewport == "null"
\* the value getInitialViewport gives _viewport
InitialViewport == "v0"
\* the throttleMs a batcher is constructed with: 0 (the default) or whole ticks
ThrottleValues == {k * TickMs : k \in 0..MaxThrottleTicks}
\* where sinceLastApply and sinceApplied stop counting: no throttleMs is larger
ElapsedCap == MaxThrottleTicks * TickMs

\* ensureRaf() without its rafId guard
ensureRaf_Unguarded(raf, fr) ==
  LET h == NextHandle({f.handle : f \in fr})
  IN [rafId |-> h, frames |-> fr \cup {[handle |-> h]}]

\* ensureRaf(), lines 40-43 and 71: the guard and the requestAnimationFrame call
ensureRaf(raf, fr) ==
  IF raf # Null
  THEN [rafId |-> raf, frames |-> fr]
  ELSE LET h == NextHandle({f.handle : f \in fr})
       IN [rafId |-> h, frames |-> fr \cup {[handle |-> h]}]

\* now - this.lastApplyTime >= currentThrottle
ThrottleElapsed(since, throttle) == since >= throttle

\* tick without the ensureRaf() call at its end
RearmAfterTick_Never(pending, fr) == [rafId |-> Null, frames |-> fr]

\* the end of tick, lines 68-69: if (this.pendingViewport) this.ensureRaf()
RearmAfterTick(pending, fr) ==
  IF pending # NoViewport THEN ensureRaf(Null, fr)
  ELSE [rafId |-> Null, frames |-> fr]

\* flush() without its lastApplyTime stamp
FlushApplyTime_Unstamped(since) == since

\* flush(), line 81: this.lastApplyTime = performance.now()
FlushApplyTime(since) == 0

Applier(who) == IF appliers = <<>> THEN <<who>> ELSE <<appliers[Len(appliers)], who>>

\* schedule(viewport), lines 25-39
ViewportBatcher_schedule(v) ==
  LET s == ensureRaf(vpRafId, vpFrames)
  IN /\ pendingViewport' = v
     /\ vpRafId' = s.rafId
     /\ vpFrames' = s.frames
     /\ applied' = <<>>
     /\ vpLastOp' = [op |-> "schedule", arg |-> v]
     /\ UNCHANGED <<batcherClass, throttleMs, sinceLastApply, sinceApplied,
                    appliers>>

Viewport_schedule(v) ==
  /\ ViewportBatcher_schedule(v)
  /\ UNCHANGED <<nodeVars, now, edgeVars, distVars, obsVars, storeVars>>

\* tick, the callback ensureRaf hands to requestAnimationFrame, lines 44-70;
\* applyFn is the store's: it assigns _viewport and schedules nothing
Viewport_tick(f) ==
  LET apply == pendingViewport # NoViewport
               /\ ThrottleElapsed(sinceLastApply, throttleMs)
      pending1 == IF apply THEN NoViewport ELSE pendingViewport
      s == RearmAfterTick(pending1, vpFrames \ {f})
  IN /\ f \in vpFrames
     /\ pendingViewport' = pending1
     /\ sinceLastApply' = IF apply THEN 0 ELSE sinceLastApply
     /\ applied' = IF apply THEN <<pendingViewport>> ELSE <<>>
     /\ sinceApplied' = IF apply THEN 0 ELSE sinceApplied
     /\ appliers' = IF apply THEN Applier("tick") ELSE appliers
     /\ vpRafId' = s.rafId
     /\ vpFrames' = s.frames
     /\ vpLastOp' = [op |-> "tick", arg |-> NoViewport]
     /\ storeViewport' = IF apply THEN pendingViewport ELSE storeViewport
     /\ UNCHANGED <<batcherClass, throttleMs, lastAssigned,
                    isViewportUpdateFromInternal>>
     /\ UNCHANGED <<nodeVars, now, edgeVars, distVars, obsVars>>

\* flush(), lines 73-83
ViewportBatcher_flush ==
  /\ vpRafId' = Null
  /\ vpFrames' = IF vpRafId # Null
                  THEN cancelAnimationFrame(vpFrames, vpRafId) ELSE vpFrames
  /\ IF pendingViewport # NoViewport
     THEN /\ applied' = <<pendingViewport>>
          /\ storeViewport' = pendingViewport
          /\ pendingViewport' = NoViewport
          /\ sinceLastApply' = FlushApplyTime(sinceLastApply)
          /\ sinceApplied' = 0
          /\ appliers' = Applier("flush")
     ELSE /\ applied' = <<>>
          /\ UNCHANGED <<pendingViewport, sinceLastApply, sinceApplied,
                         appliers, storeViewport>>
  /\ vpLastOp' = [op |-> "flush", arg |-> NoViewport]
  /\ UNCHANGED <<batcherClass, throttleMs, lastAssigned,
                    isViewportUpdateFromInternal>>

Viewport_flush ==
  ViewportBatcher_flush /\ UNCHANGED <<nodeVars, now, edgeVars, distVars, obsVars>>

\* destroy(), lines 84-90
Viewport_destroy ==
  /\ vpRafId' = Null
  /\ vpFrames' = IF vpRafId # Null
                  THEN cancelAnimationFrame(vpFrames, vpRafId) ELSE vpFrames
  /\ pendingViewport' = NoViewport
  /\ applied' = <<>>
  /\ vpLastOp' = [op |-> "destroy", arg |-> NoViewport]
  /\ UNCHANGED <<batcherClass, throttleMs, sinceLastApply, sinceApplied,
                    appliers>>
  /\ UNCHANGED <<nodeVars, now, edgeVars, distVars, obsVars, storeVars>>

\* performance.now() advances by one tick, seen by the ViewportBatcher
Viewport_clock ==
  /\ sinceLastApply' = Min(sinceLastApply + TickMs, ElapsedCap)
  /\ sinceApplied' = Min(sinceApplied + TickMs, ElapsedCap)
  /\ UNCHANGED <<vpRafId, pendingViewport, batcherClass, throttleMs, vpFrames,
                 applied,
                 appliers, vpLastOp>>
  /\ UNCHANGED <<nodeVars, now, edgeVars, distVars, obsVars, storeVars>>

(************ ViewportBatcher of src/lib/utils/viewportBatcher.ts ************)
\* what applyFn passes to schedule() while it runs: a viewport, or NoViewport
\* when it schedules nothing
Reentrant == Viewports \cup {NoViewport}

\* the first class of the file: schedule(viewport), lines 25-37
Simple_schedule(v) ==
  /\ batcherClass = "simple"
  /\ ViewportBatcher_schedule(v)
  /\ UNCHANGED <<nodeVars, now, edgeVars, distVars, obsVars, storeVars>>

\* the callback schedule() hands to requestAnimationFrame, lines 30-35.
\* applyFn runs with rafId still set and pendingViewport still held, so a
\* schedule(reent) inside it assigns pendingViewport and requests no frame;
\* then pendingViewport = null and rafId = null are executed
Simple_frame(f, reent) ==
  /\ batcherClass = "simple"
  /\ f \in vpFrames
  /\ reent # NoViewport => pendingViewport # NoViewport
  /\ applied' = IF pendingViewport # NoViewport
                  THEN <<pendingViewport>> ELSE <<>>
  /\ pendingViewport' = NoViewport
  /\ vpRafId' = Null
  /\ vpFrames' = vpFrames \ {f}
  /\ vpLastOp' = [op |-> "tick", arg |-> reent]
  /\ UNCHANGED <<batcherClass, throttleMs, sinceLastApply, sinceApplied,
                    appliers>>
  /\ UNCHANGED <<nodeVars, now, edgeVars, distVars, obsVars, storeVars>>

\* flush(), lines 44-53: rafId is null when applyFn runs, so a schedule(reent)
\* inside it requests a frame; pendingViewport = null follows
Simple_flush(reent) ==
  LET fr == IF vpRafId # Null
              THEN cancelAnimationFrame(vpFrames, vpRafId) ELSE vpFrames
      s == IF pendingViewport # NoViewport /\ reent # NoViewport
             THEN ensureRaf(Null, fr)
             ELSE [rafId |-> Null, frames |-> fr]
  IN /\ batcherClass = "simple"
     /\ reent # NoViewport => pendingViewport # NoViewport
     /\ applied' = IF pendingViewport # NoViewport
                     THEN <<pendingViewport>> ELSE <<>>
     /\ pendingViewport' = NoViewport
     /\ vpRafId' = s.rafId
     /\ vpFrames' = s.frames
     /\ vpLastOp' = [op |-> "flush", arg |-> reent]
     /\ UNCHANGED <<batcherClass, throttleMs, sinceLastApply, sinceApplied,
                    appliers>>
     /\ UNCHANGED <<nodeVars, now, edgeVars, distVars, obsVars, storeVars>>

\* destroy(), lines 59-65
Simple_destroy == batcherClass = "simple" /\ Viewport_destroy

\* the second class of the file: schedule(viewport), lines 101-115
Throttled_schedule(v) ==
  /\ batcherClass = "throttled"
  /\ ViewportBatcher_schedule(v)
  /\ UNCHANGED <<nodeVars, now, edgeVars, distVars, obsVars, storeVars>>

\* tick of ensureRaf(), lines 117-156, with an
\* applyFn that calls schedule(reent). rafId = null and pendingViewport = null
\* come before applyFn(vp), so the schedule inside it sets pendingViewport and
\* requests a frame, and the ensureRaf() at the end finds rafId set
Throttled_tick(f, reent) ==
  LET apply == pendingViewport # NoViewport
               /\ ThrottleElapsed(sinceLastApply, throttleMs)
      pending1 == IF apply THEN reent ELSE pendingViewport
      s == RearmAfterTick(pending1, vpFrames \ {f})
  IN /\ batcherClass = "throttled"
     /\ f \in vpFrames
     /\ reent # NoViewport => apply
     /\ pendingViewport' = pending1
     /\ sinceLastApply' = IF apply THEN 0 ELSE sinceLastApply
     /\ applied' = IF apply THEN <<pendingViewport>> ELSE <<>>
     /\ sinceApplied' = IF apply THEN 0 ELSE sinceApplied
     /\ appliers' = IF apply THEN Applier("tick") ELSE appliers
     /\ vpRafId' = s.rafId
     /\ vpFrames' = s.frames
     /\ vpLastOp' = [op |-> "tick", arg |-> reent]
     /\ UNCHANGED <<batcherClass, throttleMs>>
     /\ UNCHANGED <<nodeVars, now, edgeVars, distVars, obsVars, storeVars>>

(***************************** SvelteFlowStore *****************************)
\* Math.round(n / d) for positive n and d
Round(n, d) == (2 * n + d) \div (2 * d)
Max(a, b) == IF a > b THEN a ELSE b
\* Math.max(1, Math.round(progressiveNodeBatchSize / Math.max(1, viewport.zoom)))
ScaledBatchSize(size, zoom) == Max(1, Round(size, Max(1, zoom)))

\* the derived `visible` with onlyRenderVisibleElements and both thresholds
\* positive: the node batcher is reconfigured and updated, then the edge batcher
Store_visible(V, E, zoom) ==
  /\ batchSize' = ScaledBatchSize(StoreNodeBatchSize, zoom) * AccDen
  /\ updateVisibleNodes(V, NoPos)
  /\ updateVisibleEdges(E)
  /\ UNCHANGED <<vpVars, distVars, obsVars, storeVars>>

\* onPanZoomEnd of the Zoom container: viewportBatcher.flush(),
\* flushProgressiveNodes(), flushProgressiveEdges()
Store_onPanZoomEnd ==
  /\ ViewportBatcher_flush
  /\ ProgressiveNodeBatcher_flush
  /\ ProgressiveEdgeBatcher_flush
  /\ UNCHANGED <<distVars, obsVars>>

\* resetStoreValues(): both batchers are reset, _prevRenderedNodes and
\* _prevRenderedEdges are kept
Store_resetStoreValues ==
  /\ ViewportBatcher_flush
  /\ ProgressiveNodeBatcher_reset
  /\ ProgressiveEdgeBatcher_reset
  /\ UNCHANGED <<distVars, obsVars>>

\* setViewportUpdateSource(isInternal)
Store_setViewportUpdateSource(isInternal) ==
  /\ isViewportUpdateFromInternal' = isInternal
  /\ UNCHANGED <<storeViewport, lastAssigned>>
  /\ UNCHANGED <<nodeVars, now, edgeVars, vpVars, distVars, obsVars>>

\* set viewport(newViewport) with initViewportBatching() done,
\* batchViewportUpdates true and no bound signals.viewport: an internal update
\* goes to the batcher, any other is assigned to _viewport at once and leaves
\* the batcher as it is
Store_setViewport(newViewport) ==
  /\ IF isViewportUpdateFromInternal
        THEN /\ ViewportBatcher_schedule(newViewport)
             /\ UNCHANGED storeViewport
        ELSE /\ storeViewport' = newViewport
             /\ applied' = <<>>
             /\ vpLastOp' = [op |-> "direct", arg |-> newViewport]
             /\ UNCHANGED <<vpRafId, pendingViewport, batcherClass, throttleMs,
                            sinceLastApply,
                            vpFrames, sinceApplied, appliers>>
  /\ lastAssigned' = newViewport
  /\ UNCHANGED isViewportUpdateFromInternal
  /\ UNCHANGED <<nodeVars, now, edgeVars, distVars, obsVars>>

(************************* StaggeredResizeObserver *************************)
Elements == 1..NumElements
NoElement == 0

\* constructor(callback, batchSize)
ObserverInit(size) ==
  /\ pendingObserveList = <<>>
  /\ pendingObserveSet = {}
  /\ pendingUnobserve = <<>>
  /\ obsRafId = Null
  /\ obsBatchSize = size
  /\ listIndex = 0
  /\ obsFrames = {}
  /\ observed = {}
  /\ obsCalls = <<>>
  /\ obsLastOp = "new"
  /\ obsArg = NoElement
  /\ enqueued = <<>>

\* pendingUnobserve is a Set, iterated in insertion order: the list of its
\* members
SetHas(q, e) == \E i \in 1..Len(q) : q[i] = e
SetAdd(q, e) == IF SetHas(q, e) THEN q ELSE Append(q, e)
SetDelete(q, e) == SelectSeq(q, LAMBDA x : x # e)

ObserveCall(e) == [op |-> "observe", el |-> e]
UnobserveCall(e) == [op |-> "unobserve", el |-> e]
DisconnectCall == [op |-> "disconnect", el |-> NoElement]

\* the underlying ResizeObserver: the elements it observes after a list of calls
RECURSIVE ResizeObserver(_, _)
ResizeObserver(obs, calls) ==
  IF calls = <<>> THEN obs
  ELSE LET c == Head(calls)
       IN ResizeObserver(CASE c.op = "observe" -> obs \cup {c.el}
                           [] c.op = "unobserve" -> obs \ {c.el}
                           [] OTHER -> {},
                         Tail(calls))

\* for (const element of this.pendingUnobserve) this.observer.unobserve(element)
UnobserveAll(q) == [i \in 1..Len(q) |-> UnobserveCall(q[i])]

\* scheduleProcessing(): one frame callback at a time
scheduleProcessing(raf, fr) ==
  IF raf # Null
  THEN [rafId |-> raf, frames |-> fr]
  ELSE LET h == NextHandle({f.handle : f \in fr})
       IN [rafId |-> h, frames |-> fr \cup {[handle |-> h]}]

\* hasPending()
hasPending(set, unobs) == Cardinality(set) > 0 \/ Len(unobs) > 0

\* the elements of a list of calls to observe()
RegisteredBy(calls) ==
  LET o == SelectSeq(calls, LAMBDA c : c.op = "observe")
  IN [i \in 1..Len(o) |-> o[i].el]

\* observe(element)
StaggeredResizeObserver_observe(e) ==
  /\ IF SetHas(pendingUnobserve, e)
     THEN /\ pendingUnobserve' = SetDelete(pendingUnobserve, e)
          /\ UNCHANGED <<pendingObserveList, pendingObserveSet, obsRafId,
                         obsFrames, enqueued>>
     ELSE IF e \notin pendingObserveSet
     THEN /\ Len(pendingObserveList) < MaxListLen
          /\ pendingObserveList' = Append(pendingObserveList, e)
          /\ pendingObserveSet' = pendingObserveSet \cup {e}
          /\ \E s \in {scheduleProcessing(obsRafId, obsFrames)} :
               obsRafId' = s.rafId /\ obsFrames' = s.frames
          /\ enqueued' = Append(enqueued, e)
          /\ UNCHANGED pendingUnobserve
     ELSE UNCHANGED <<pendingObserveList, pendingObserveSet, pendingUnobserve,
                      obsRafId, obsFrames, enqueued>>
  /\ obsCalls' = <<>>
  /\ obsLastOp' = "observe"
  /\ obsArg' = e
  /\ UNCHANGED <<obsBatchSize, listIndex, observed>>

\* unobserve(element)
StaggeredResizeObserver_unobserve(e) ==
  /\ IF e \in pendingObserveSet
     THEN /\ pendingObserveSet' = pendingObserveSet \ {e}
          /\ enqueued' = SetDelete(enqueued, e)
          /\ UNCHANGED <<pendingUnobserve, obsRafId, obsFrames>>
     ELSE /\ pendingUnobserve' = SetAdd(pendingUnobserve, e)
          /\ \E s \in {scheduleProcessing(obsRafId, obsFrames)} :
               obsRafId' = s.rafId /\ obsFrames' = s.frames
          /\ UNCHANGED <<pendingObserveSet, enqueued>>
  /\ obsCalls' = <<>>
  /\ obsLastOp' = "unobserve"
  /\ obsArg' = e
  /\ UNCHANGED <<pendingObserveList, obsBatchSize, listIndex, observed>>

\* a flush() that observes one element, as a frame of batch size 1 does
FlushObserves_First(list, idx, set) ==
  LET rest == SubSeq(list, idx + 1, Len(list))
      live == SelectSeq(rest, LAMBDA x : x \in set)
  IN IF live = <<>> THEN <<>> ELSE <<ObserveCall(live[1])>>

\* the loop of flush() over the list from the read index: an entry that
\* is not in the Set is passed over
FlushObserves(list, idx, set) ==
  LET rest == SubSeq(list, idx + 1, Len(list))
      live == SelectSeq(rest, LAMBDA x : x \in set)
  IN [i \in 1..Len(live) |-> ObserveCall(live[i])]

\* flush()
StaggeredResizeObserver_flush ==
  /\ obsFrames' = IF obsRafId # Null
                  THEN cancelAnimationFrame(obsFrames, obsRafId) ELSE obsFrames
  /\ obsRafId' = Null
  /\ obsCalls' = UnobserveAll(pendingUnobserve)
                   \o FlushObserves(pendingObserveList, listIndex, pendingObserveSet)
  /\ observed' = ResizeObserver(observed, obsCalls')
  /\ pendingUnobserve' = <<>>
  /\ pendingObserveList' = <<>>
  /\ pendingObserveSet' = {}
  /\ listIndex' = 0
  /\ enqueued' = <<>>
  /\ obsLastOp' = "flush"
  /\ obsArg' = NoElement
  /\ UNCHANGED obsBatchSize

\* disconnect()
StaggeredResizeObserver_disconnect ==
  /\ obsFrames' = IF obsRafId # Null
                  THEN cancelAnimationFrame(obsFrames, obsRafId) ELSE obsFrames
  /\ obsRafId' = Null
  /\ pendingObserveList' = <<>>
  /\ pendingObserveSet' = {}
  /\ pendingUnobserve' = <<>>
  /\ listIndex' = 0
  /\ obsCalls' = <<DisconnectCall>>
  /\ observed' = ResizeObserver(observed, obsCalls')
  /\ enqueued' = <<>>
  /\ obsLastOp' = "disconnect"
  /\ obsArg' = NoElement
  /\ UNCHANGED obsBatchSize

\* processed < this.batchSize
BatchOpen(processed, size) == processed < size

\* an entry of the list that was unobserved is observed all the same
StillQueued_Always(e, set) == TRUE

\* this.pendingObserveSet.has(element)
StillQueued(e, set) == e \in set

\* the while loop of processBatch()
RECURSIVE ProcessLoop(_, _, _, _, _, _)
ProcessLoop(list, idx, set, processed, size, calls) ==
  IF idx < Len(list) /\ BatchOpen(processed, size)
  THEN LET e == list[idx + 1]
       IN IF StillQueued(e, set)
          THEN ProcessLoop(list, idx + 1, set \ {e}, processed + 1, size,
                           Append(calls, ObserveCall(e)))
          ELSE ProcessLoop(list, idx + 1, set, processed, size, calls)
  ELSE [listIndex |-> idx, set |-> set, calls |-> calls]

\* a compaction that replaces the list whatever the read index is
Compact_Eager(list, idx) == [list |-> <<>>, listIndex |-> 0]

\* the compaction of processBatch(): the list and the read index after it
Compact(list, idx) ==
  IF idx >= Len(list) THEN [list |-> <<>>, listIndex |-> 0]
  ELSE IF idx > COMPACT_INDEX
  THEN [list |-> SubSeq(list, idx + 1, Len(list)), listIndex |-> 0]
  ELSE [list |-> list, listIndex |-> idx]

\* the frame callback of scheduleProcessing(): processBatch()
StaggeredResizeObserver_frame(f) ==
  /\ f \in obsFrames
  /\ \E r \in {ProcessLoop(pendingObserveList, listIndex, pendingObserveSet,
                           0, obsBatchSize, <<>>)} :
       /\ obsCalls' = UnobserveAll(pendingUnobserve) \o r.calls
       /\ pendingObserveSet' = r.set
       /\ \E c \in {Compact(pendingObserveList, r.listIndex)} :
            pendingObserveList' = c.list /\ listIndex' = c.listIndex
       /\ \E s \in {IF Cardinality(r.set) > 0
                    THEN scheduleProcessing(Null, obsFrames \ {f})
                    ELSE [rafId |-> Null, frames |-> obsFrames \ {f}]} :
            obsRafId' = s.rafId /\ obsFrames' = s.frames
       /\ enqueued' = SelectSeq(enqueued, LAMBDA x : x \in r.set)
  /\ observed' = ResizeObserver(observed, obsCalls')
  /\ pendingUnobserve' = <<>>
  /\ obsLastOp' = "frame"
  /\ obsArg' = NoElement
  /\ UNCHANGED obsBatchSize

\* setBatchSize(size)
StaggeredResizeObserver_setBatchSize(size) ==
  /\ obsBatchSize' = size
  /\ obsCalls' = <<>>
  /\ obsLastOp' = "setBatchSize"
  /\ obsArg' = NoElement
  /\ UNCHANGED <<pendingObserveList, pendingObserveSet, pendingUnobserve,
                 obsRafId, listIndex, obsFrames, observed, enqueued>>

Observer_observe(e) ==
  StaggeredResizeObserver_observe(e) /\ UNCHANGED <<nodeVars, now, edgeVars, vpVars, distVars, storeVars>>
Observer_unobserve(e) ==
  StaggeredResizeObserver_unobserve(e) /\ UNCHANGED <<nodeVars, now, edgeVars, vpVars, distVars, storeVars>>
Observer_flush ==
  StaggeredResizeObserver_flush /\ UNCHANGED <<nodeVars, now, edgeVars, vpVars, distVars, storeVars>>
Observer_disconnect ==
  StaggeredResizeObserver_disconnect /\ UNCHANGED <<nodeVars, now, edgeVars, vpVars, distVars, storeVars>>
Observer_frame(f) ==
  StaggeredResizeObserver_frame(f) /\ UNCHANGED <<nodeVars, now, edgeVars, vpVars, distVars, storeVars>>
Observer_setBatchSize(size) ==
  StaggeredResizeObserver_setBatchSize(size)
  /\ UNCHANGED <<nodeVars, now, edgeVars, vpVars, distVars, storeVars>>

(****************************** specifications *****************************)
BatchSizes == 1..MaxBatchNum
NoOptions == [threshold |-> Undefined, batchSize |-> Undefined,
              maxPanVelocity |-> Undefined]

\* the state after new ProgressiveNodeBatcher({threshold, batchSize, maxPanVelocity})
NodeInit(T, size, maxV) ==
  /\ pendingNodes = <<>>
  /\ renderedNodes = EmptyMap
  /\ batchSize = size
  /\ threshold = T
  /\ rafId = Null
  /\ accumulator = 0
  /\ isFlushing = FALSE
  /\ cachedReturnMap = NullMap
  /\ cachedPendingMap = <<>>
  /\ dirty = TRUE
  /\ maxPanVelocity = maxV
  /\ lastViewportPos = NoPos
  /\ lastUpdateTime = 0
  /\ isPanningFast = FALSE
  /\ staleCheckTimeoutId = Null
  /\ frames = {}
  /\ timers = {}
  /\ now = TickMs
  /\ prevRenderedNodes = EmptyMap
  /\ lastOp = "new"
  /\ lastVisible = EmptyMap
  /\ lastNewly = {}
  /\ notified = FALSE
  /\ createdMap = FALSE

\* the state after new ProgressiveEdgeBatcher({threshold, batchSize}), with
\* canRender as set from outside
EdgeInit(T, size, cr) ==
  /\ pendingEdges = <<>>
  /\ renderedEdges = {}
  /\ edgeRafId = Null
  /\ edgeBatchSize = size
  /\ edgeThreshold = T
  /\ edgeAccumulator = 0
  /\ canRender = cr
  /\ edgeFrames = {}
  /\ prevRenderedEdges = {}
  /\ edgeLastOp = "new"

\* the state after new ViewportBatcher(applyFn, throttle): lastApplyTime is
\* -Infinity, so the throttle period has passed
\* new ProgressiveEdgeBatcher({threshold, batchSize, maxPanVelocity}) of dist/
DistInit(T, size, maxV) ==
  /\ distPendingEdges = <<>>
  /\ distRenderedEdges = EmptyMap
  /\ distBatchSize = size
  /\ distThreshold = T
  /\ distCachedReturnMap = NullMap
  /\ distDirty = TRUE
  /\ distMaxPanVelocity = maxV
  /\ distLastViewportPos = NoPos
  /\ distLastUpdateTime = 0
  /\ distIsPanningFast = FALSE
  /\ distStaleCheckTimeoutId = Null
  /\ distTimers = {}
  /\ distPrevRenderedEdges = EmptyMap
  /\ distLastOp = "new"
  /\ distNotified = FALSE
  /\ distLastVisible = EmptyMap

BatcherInit(class, throttle) ==
  /\ vpRafId = Null
  /\ pendingViewport = NoViewport
  /\ batcherClass = class
  /\ throttleMs = throttle
  /\ sinceLastApply = ElapsedCap
  /\ vpFrames = {}
  /\ applied = <<>>
  /\ sinceApplied = ElapsedCap
  /\ appliers = <<>>
  /\ vpLastOp = [op |-> "new", arg |-> NoViewport]
  /\ storeViewport = InitialViewport
  /\ lastAssigned = InitialViewport
  /\ isViewportUpdateFromInternal = FALSE

\* the ViewportBatcher the store imports: the one with a throttle
ViewportInit(throttle) == BatcherInit("throttled", throttle)

\* the maps getVisibleNodes returns for a viewport that opens from the first
\* node of a row: the nodes 1..b
PrefixMaps ==
  {[id \in Ids |-> IF id <= b THEN "o1" ELSE Absent] : b \in 0..NumIds}

\* the maps getVisibleNodes returns for a viewport that slides along nodes
\* laid out in a row: the nodes a..b
WindowMaps ==
  {[id \in Ids |-> IF a <= id /\ id <= b THEN "o1" ELSE Absent] :
     a \in 1..(NumIds + 1), b \in 0..NumIds}

Init ==
  /\ \E T \in 1..MaxThreshold, size \in BatchSizes : NodeInit(T, size, 0)
  /\ EdgeInit(1, AccDen, "null")
  /\ ViewportInit(0)
  /\ DistInit(1, 1, 0) /\ ObserverInit(1)

Next ==
  \/ \E V \in VisibleMapsOf({"o1"}) : Node_updateVisibleNodes(V, NoPos)
  \/ \E f \in frames : Node_batchCallback(f)
  \/ \E f \in frames : Node_gradualCallback(f)
  \/ Node_flush
  \/ \E b \in 1..MaxFlushBatch : Node_flushGradually(b)
  \/ Node_reset
  \/ \E size \in BatchSizes :
       Node_updateConfig([NoOptions EXCEPT !.batchSize = size])

Spec == Init /\ [][Next]_vars

\* the batcher with its threshold reconfigured at run time, 0 (progressive
\* loading disabled) included
InitConfig ==
  /\ \E T \in 0..MaxThreshold : NodeInit(T, AccDen, 0)
  /\ EdgeInit(1, AccDen, "null")
  /\ ViewportInit(0)
  /\ DistInit(1, 1, 0) /\ ObserverInit(1)

NextConfig ==
  \/ \E V \in VisibleMapsOf({"o1"}) : Node_updateVisibleNodes(V, NoPos)
  \/ \E f \in frames : Node_batchCallback(f)
  \/ Node_flush
  \/ \E T \in 0..MaxThreshold :
       Node_updateConfig([NoOptions EXCEPT !.threshold = T])

SpecConfig == InitConfig /\ [][NextConfig]_vars

\* the batcher constructed with maxPanVelocity and called with a viewport position
InitVelocity ==
  /\ NodeInit(1, AccDen, FastLimit) /\ EdgeInit(1, AccDen, "null")
  /\ ViewportInit(0) /\ DistInit(1, 1, 0) /\ ObserverInit(1)

NextVelocity ==
  \/ \E V \in VisibleMapsOf({"o1"}), pos \in Positions :
       Node_updateVisibleNodes(V, pos)
  \/ \E f \in frames : Node_batchCallback(f)
  \/ \E t \in timers : Node_staleCallback(t)
  \/ Node_flush
  \/ Tick

SpecVelocity == InitVelocity /\ [][NextVelocity]_vars

\* the store with both progressive batchers: every recomputation of `visible`
\* sees some viewport (zoom 1 or 2), hence some visible nodes and edges
\* Updates whose maps carry either of two payload objects per id, scheduled
\* callbacks and flush(), for a positive threshold
InitCache ==
  /\ NodeInit(1, AccDen, 0) /\ EdgeInit(1, AccDen, "null")
  /\ ViewportInit(0) /\ DistInit(1, 1, 0) /\ ObserverInit(1)

NextCache ==
  \/ \E V \in VisibleMaps : Node_updateVisibleNodes(V, NoPos)
  \/ \E f \in frames : Node_batchCallback(f)
  \/ Node_flush

SpecCache == InitCache /\ [][NextCache]_vars

\* Progressive loading switched off and on: threshold 0 or 1
InitZero ==
  /\ \E T \in {0, 1} : NodeInit(T, AccDen, 0)
  /\ EdgeInit(1, AccDen, "null")
  /\ ViewportInit(0) /\ DistInit(1, 1, 0) /\ ObserverInit(1)

NextZero ==
  \/ \E V \in VisibleMapsOf({"o1"}) : Node_updateVisibleNodes(V, NoPos)
  \/ \E f \in frames : Node_batchCallback(f)
  \/ \E T \in {0, 1} :
       Node_updateConfig([NoOptions EXCEPT !.threshold = T])

SpecZero == InitZero /\ [][NextZero]_vars

\* reset() and destroy() among updates with velocity gating, both kinds of
\* frame callback, the stale timer and the two flushes
NextTeardown ==
  \/ \E V \in PrefixMaps, pos \in Positions : Node_updateVisibleNodes(V, pos)
  \/ \E f \in frames : Node_batchCallback(f)
  \/ \E f \in frames : Node_gradualCallback(f)
  \/ \E t \in timers : Node_staleCallback(t)
  \/ Node_flushGradually(1)
  \/ Node_flush
  \/ Node_reset
  \/ Node_destroy
  \/ Tick

SpecTeardown == InitVelocity /\ [][NextTeardown]_vars

\* Velocity gating together with the forced flushes
NextStale ==
  \/ \E V \in VisibleMapsOf({"o1"}), pos \in Positions :
       Node_updateVisibleNodes(V, pos)
  \/ \E f \in frames : Node_batchCallback(f)
  \/ \E f \in frames : Node_gradualCallback(f)
  \/ \E t \in timers : Node_staleCallback(t)
  \/ \E b \in 1..MaxFlushBatch : Node_flushGradually(b)
  \/ Node_flush
  \/ Tick

SpecStale == InitVelocity /\ [][NextStale]_vars

\* The store with the canRender callback set, at zoom 1
InitCanRender ==
  /\ NodeInit(1, StoreNodeBatchSize * AccDen, 0)
  /\ EdgeInit(1, AccDen, "nodesRendered")
  /\ ViewportInit(0)
  /\ DistInit(1, 1, 0) /\ ObserverInit(1)

NextCanRender ==
  \/ \E V \in WindowMaps :
       \E E \in VisibleEdgeSets(V) : Store_visible(V, E, 1)
  \/ \E f \in frames : Node_batchCallback(f)
  \/ \E f \in edgeFrames : Edge_batchCallback(f)
  \/ Store_onPanZoomEnd

SpecCanRender == InitCanRender /\ [][NextCanRender]_vars

\* The call-driven edge batcher of dist/, with and without velocity gating
InitDist ==
  /\ NodeInit(1, AccDen, 0) /\ EdgeInit(1, AccDen, "null") /\ ViewportInit(0)
  /\ \E size \in 1..MaxFlushBatch, maxV \in {0, FastLimit} :
       DistInit(1, size, maxV)
  /\ ObserverInit(1)

NextDist ==
  \/ \E V \in VisibleMapsOf({"o1"}), pos \in Positions :
       Dist_updateVisibleEdges(V, pos)
  \/ \E t \in distTimers : Dist_staleCallback(t)
  \/ Dist_flush
  \/ \E b \in 1..MaxFlushBatch : Dist_flushGradually(b)
  \/ Dist_reset
  \/ Tick

SpecDist == InitDist /\ [][NextDist]_vars

InitStore ==
  /\ NodeInit(1, StoreNodeBatchSize * AccDen, 0)
  /\ \E cr \in CanRenderValues : EdgeInit(1, AccDen, cr)
  /\ ViewportInit(0)
  /\ DistInit(1, 1, 0) /\ ObserverInit(1)

NextStore ==
  \/ \E V \in VisibleMapsOf({"o1"}), zoom \in {1, 2} :
       \E E \in VisibleEdgeSets(V) : Store_visible(V, E, zoom)
  \/ \E f \in frames : Node_batchCallback(f)
  \/ \E f \in edgeFrames : Edge_batchCallback(f)
  \/ Store_onPanZoomEnd
  \/ Store_resetStoreValues

SpecStore == InitStore /\ [][NextStore]_vars

\* the ViewportBatcher alone, constructed with any throttle
InitViewport ==
  /\ NodeInit(1, AccDen, 0)
  /\ EdgeInit(1, AccDen, "null")
  /\ \E throttle \in ThrottleValues : ViewportInit(throttle)
  /\ DistInit(1, 1, 0) /\ ObserverInit(1)

NextViewport ==
  \/ \E v \in Viewports : Viewport_schedule(v)
  \/ \E f \in vpFrames : Viewport_tick(f)
  \/ Viewport_flush
  \/ Viewport_destroy
  \/ Viewport_clock

SpecViewport == InitViewport /\ [][NextViewport]_vars

\* schedule calls, frames and the clock only; frames keep firing and the clock
\* keeps advancing
NextViewportLive ==
  \/ \E v \in Viewports : Viewport_schedule(v)
  \/ \E f \in vpFrames : Viewport_tick(f)
  \/ Viewport_clock

SpecViewportLive ==
  /\ InitViewport
  /\ [][NextViewportLive]_vars
  /\ WF_vars(\E f \in vpFrames : Viewport_tick(f))
  /\ WF_vars(Viewport_clock)

\* the store's viewport setter over its ViewportBatcher: internal and direct
\* assignments, frames, the clock and the flush of onPanZoomEnd
InitStoreViewport == InitViewport

NextStoreViewport ==
  \/ \E isInternal \in BOOLEAN : Store_setViewportUpdateSource(isInternal)
  \/ \E v \in Viewports : Store_setViewport(v)
  \/ \E f \in vpFrames : Viewport_tick(f)
  \/ Viewport_flush
  \/ Viewport_clock

SpecStoreViewport == InitStoreViewport /\ [][NextStoreViewport]_vars

\* the two ViewportBatcher classes of viewportBatcher.ts, each with an applyFn
\* that may call schedule(): the batcher is constructed as either class
InitViewportTs ==
  /\ NodeInit(1, AccDen, 0)
  /\ EdgeInit(1, AccDen, "null")
  /\ \/ BatcherInit("simple", 0)
     \/ \E throttle \in ThrottleValues : BatcherInit("throttled", throttle)
  /\ DistInit(1, 1, 0) /\ ObserverInit(1)

NextViewportTs ==
  \/ \E v \in Viewports : Simple_schedule(v)
  \/ \E f \in vpFrames, reent \in Reentrant : Simple_frame(f, reent)
  \/ \E reent \in Reentrant : Simple_flush(reent)
  \/ Simple_destroy
  \/ \E v \in Viewports : Throttled_schedule(v)
  \/ \E f \in vpFrames, reent \in Reentrant : Throttled_tick(f, reent)
  \/ batcherClass = "throttled" /\ Viewport_clock

SpecViewportTs == InitViewportTs /\ [][NextViewportTs]_vars

\* The StaggeredResizeObserver alone
InitObserver ==
  /\ NodeInit(1, AccDen, 0) /\ EdgeInit(1, AccDen, "null")
  /\ ViewportInit(0) /\ DistInit(1, 1, 0)
  /\ \E size \in 1..MaxObsBatch : ObserverInit(size)

NextObserver ==
  \/ \E e \in Elements : Observer_observe(e)
  \/ \E e \in Elements : Observer_unobserve(e)
  \/ \E f \in obsFrames : Observer_frame(f)
  \/ Observer_flush
  \/ Observer_disconnect
  \/ \E size \in 1..MaxObsBatch : Observer_setBatchSize(size)

SpecObserver == InitObserver /\ [][NextObserver]_vars

\* the same, with every scheduled frame callback eventually run by the browser
SpecObserverLive ==
  /\ InitObserver /\ [][NextObserver]_vars
  /\ WF_vars(\E f \in obsFrames : Observer_frame(f))

\* A gradual flush interleaved with updates, batch callbacks and flush()
InitGradual ==
  /\ NodeInit(1, AccDen, 0) /\ EdgeInit(1, AccDen, "null")
  /\ ViewportInit(0) /\ DistInit(1, 1, 0) /\ ObserverInit(1)

NextGradual ==
  \/ \E V \in WindowMaps : Node_updateVisibleNodes(V, NoPos)
  \/ \E f \in frames : Node_batchCallback(f)
  \/ \E f \in frames : Node_gradualCallback(f)
  \/ \E b \in 1..MaxFlushBatch : Node_flushGradually(b)
  \/ Node_flush

SpecGradual == InitGradual /\ [][NextGradual]_vars

\* Admission order: updates that change payload references, batch callbacks
\* and gradual flushes
InitFifo ==
  /\ NodeInit(1, AccDen, 0) /\ EdgeInit(1, AccDen, "null")
  /\ ViewportInit(0) /\ DistInit(1, 1, 0) /\ ObserverInit(1)

NextFifo ==
  \/ \E V \in VisibleMaps : Node_updateVisibleNodes(V, NoPos)
  \/ \E f \in frames : Node_batchCallback(f)
  \/ \E f \in frames : Node_gradualCallback(f)
  \/ \E b \in 1..MaxFlushBatch : Node_flushGradually(b)

SpecFifo == InitFifo /\ [][NextFifo]_vars

\* The call-driven edge batcher given edges whose payload objects change
InitDistRefresh ==
  /\ NodeInit(1, AccDen, 0) /\ EdgeInit(1, AccDen, "null") /\ ViewportInit(0)
  /\ DistInit(1, 1, 0) /\ ObserverInit(1)

NextDistRefresh ==
  \/ \E V \in VisibleMaps : Dist_updateVisibleEdges(V, NoPos)
  \/ Dist_flush

SpecDistRefresh == InitDistRefresh /\ [][NextDistRefresh]_vars

(********************************* claims **********************************)
\* C1 (as claimed): every edge in the edge batcher's Rendered set has both its
\* source and its target in the node batcher's Rendered set
C1_EdgeEndpointsRendered ==
  \A e \in renderedEdges :
     Has(renderedNodes, Source(e)) /\ Has(renderedNodes, Target(e))

\* a step that is one call of updateVisibleNodes / one firing of a callback
UpdateStep == lastOp' = "update" /\ now' = now
BatchStep == lastOp' = "batch" /\ now' = now
Rendered == Keys(renderedNodes)
Pending == PendingIds(pendingNodes)
\* the ids of the visible map of an update step that are, before the call, in
\* none of Rendered, Pending and the caller's previouslyRendered map
NewIds == {id \in Keys(lastVisible') : id \notin Keys(renderedNodes)
             /\ id \notin PendingIds(pendingNodes)
             /\ id \notin Keys(prevRenderedNodes)}

\* C2 (as claimed): after updateVisibleNodes(V) returns, every id that was in
\* Rendered or Pending before the call and is not in V is in neither set,
\* whatever the threshold is (0 included)
C2_VisibilityLossImmediate ==
  [][UpdateStep =>
       \A k \in (Rendered \cup Pending) \ Keys(lastVisible') :
          k \notin Keys(renderedNodes') /\ k \notin PendingIds(pendingNodes')]_vars

\* C3: with threshold T >= 1, when more than T ids are newly visible in an
\* update call, all of them are in Pending and none in Rendered when the call
\* returns, and every id rendered before and still visible is still rendered
C3_OverThresholdQueued ==
  [][(UpdateStep /\ threshold >= 1 /\ Cardinality(NewIds) > threshold) =>
       /\ NewIds \subseteq PendingIds(pendingNodes')
       /\ NewIds \cap Keys(renderedNodes') = {}
       /\ Rendered \cap Keys(lastVisible') \subseteq Keys(renderedNodes')]_vars

C3_Witness ==
  /\ lastOp = "update" /\ threshold >= 1
  /\ Cardinality(lastNewly) > threshold
  /\ lastNewly \subseteq Pending
  /\ Rendered # {}

\* C4: with threshold T >= 1, when at most T ids are newly visible in an update
\* call, all of them are in Rendered and none of them was added to Pending when
\* the call returns, also with Pending non-empty and with the velocity gate closed
C4_UnderThresholdAdmitted ==
  [][(UpdateStep /\ threshold >= 1 /\ Cardinality(NewIds) <= threshold) =>
       /\ NewIds \subseteq Keys(renderedNodes')
       /\ NewIds \cap PendingIds(pendingNodes') = {}]_vars

C4_Witness ==
  /\ lastOp = "update" /\ threshold >= 1
  /\ lastNewly # {} /\ Cardinality(lastNewly) <= threshold
  /\ lastNewly \subseteq Rendered
  /\ Pending # {}
  /\ isPanningFast

\* C5: with a positive threshold no id is in both Pending and Rendered
C5_PendingRenderedDisjoint == Rendered \cap Pending = {}

C5_Witness ==
  /\ lastOp \in {"batch", "gradual"} /\ Rendered # {} /\ Pending # {}

\* C6 (as claimed): with a positive threshold, when updateVisibleNodes(V, prev)
\* returns, every id of V is in exactly one of Rendered and Pending
C6_VisibleInExactlyOne ==
  lastOp = "update" =>
    \A id \in Keys(lastVisible) : (id \in Rendered) # (id \in Pending)

\* C7: with a positive threshold, every id in Rendered and every id in Pending
\* is an id of the visible map of the most recent updateVisibleNodes call
C7_WithinLastVisible == Rendered \cup Pending \subseteq Keys(lastVisible)

C7_Witness ==
  /\ lastOp \in {"batch", "gradual", "flush"} /\ notified
  /\ Rendered # {} /\ Pending # {}
  /\ Keys(lastVisible) # Ids

DrainRank(pending, acc) == Len(pending) * AccDen - acc

C9_FramesOnlyGrowRendered ==
  [][(lastOp' \notin {"update", "reset"} /\ now' = now) =>
       Rendered \subseteq Keys(renderedNodes')]_vars

C9_Witness ==
  /\ lastOp \in {"batch", "gradual"} /\ notified
  /\ \E id \in Rendered : Has(prevRenderedNodes, id)
  /\ \E id \in Rendered : ~Has(prevRenderedNodes, id)

\* C10: a firing of the batch callback moves exactly
\* min(floor(accumulator + batchSize), |Pending|) entries from the front of
\* Pending to Rendered and keeps the fractional remainder; flush() moves every
\* Pending entry to Rendered and leaves Pending empty
C10_BatchMovesFront ==
  [][/\ BatchStep =>
          LET n == Min((accumulator + batchSize) \div AccDen, Len(pendingNodes))
          IN /\ pendingNodes' = SubSeq(pendingNodes, n + 1, Len(pendingNodes))
             /\ \A i \in 1..n :
                  renderedNodes'[pendingNodes[i].id] = pendingNodes[i].node
             /\ \A id \in Ids \ {pendingNodes[i].id : i \in 1..n} :
                  renderedNodes'[id] = renderedNodes[id]
             /\ accumulator' = (accumulator + batchSize) % AccDen
     /\ (lastOp' = "flush" /\ now' = now) =>
          /\ pendingNodes' = <<>>
          /\ \A i \in 1..Len(pendingNodes) :
               renderedNodes'[pendingNodes[i].id] = pendingNodes[i].node
          /\ \A id \in Ids \ Pending : renderedNodes'[id] = renderedNodes[id]]_vars

C10_Witness ==
  /\ lastOp = "flush" /\ notified
  /\ accumulator > 0 /\ batchSize > AccDen
  /\ Cardinality(Rendered) = NumIds

\* a step that is one call of a ViewportBatcher method or one firing of tick
VpStep(op) == vpLastOp'.op = op /\ sinceApplied' \in {sinceApplied, 0}

\* C12 (as claimed): after schedule calls exactly one frame callback is
\* outstanding, and when it fires with a value pending applyFn is invoked
\* exactly once, with the value scheduled last
C12_FrameAppliesLatest ==
  [][/\ VpStep("schedule") => Cardinality(vpFrames') = 1
     /\ (VpStep("tick") /\ pendingViewport # NoViewport) =>
          applied' = <<pendingViewport>>]_vars

\* C12 (amended): schedule(v) makes v the pending value with exactly one frame
\* callback outstanding and applies nothing; a firing with a value pending
\* invokes applyFn exactly once with that value when throttleMs has passed
\* since the last application (always, when throttleMs is 0) and not at all
\* otherwise; only the pending value is ever applied, and only schedule
\* replaces it
C12_CoalescedLatest ==
  [][/\ VpStep("schedule") =>
          /\ pendingViewport' = vpLastOp'.arg
          /\ Cardinality(vpFrames') = 1 /\ vpRafId' # Null
          /\ applied' = <<>>
     /\ (VpStep("tick") /\ pendingViewport # NoViewport) =>
          applied' = IF sinceApplied >= throttleMs
                     THEN <<pendingViewport>> ELSE <<>>
     /\ (VpStep("tick") /\ pendingViewport = NoViewport) => applied' = <<>>
     /\ (VpStep("tick") \/ VpStep("flush")) =>
          applied' \in {<<>>, <<pendingViewport>>}
     /\ vpLastOp'.op # "schedule" =>
          pendingViewport' \in {pendingViewport, NoViewport}]_vars

C12_Witness ==
  /\ vpLastOp.op = "tick" /\ applied = <<"v2">>
  /\ throttleMs > 0 /\ appliers = <<"tick", "tick">>

\* C13: with frames firing and the clock advancing and no flush() or destroy(),
\* a pending value is eventually applied unless another value is scheduled over
\* it; a firing before throttleMs has passed applies nothing, keeps the value
\* pending and leaves one frame callback scheduled
C13_FinalValueApplied ==
  /\ \A v \in Viewports :
       (pendingViewport = v) ~>
         (applied = <<v>> \/ pendingViewport \notin {v, NoViewport})
  /\ [][(VpStep("tick") /\ pendingViewport # NoViewport
           /\ sinceApplied < throttleMs) =>
          /\ applied' = <<>>
          /\ pendingViewport' = pendingViewport
          /\ vpRafId' # Null /\ Cardinality(vpFrames') = 1]_vars

C13_Witness ==
  /\ vpLastOp.op = "tick" /\ applied = <<>>
  /\ throttleMs > 0 /\ sinceApplied < throttleMs
  /\ pendingViewport # NoViewport /\ vpRafId # Null

\* C14: a frame callback never invokes applyFn less than throttleMs after the
\* previous invocation of applyFn, made by a frame callback or by flush()
C14_ThrottleRespected ==
  [][(VpStep("tick") /\ applied' # <<>>) => sinceApplied >= throttleMs]_vars

C14_Witness ==
  /\ vpLastOp.op = "tick" /\ applied # <<>>
  /\ throttleMs > 0 /\ appliers = <<"flush", "tick">>

\* C15: flush() with a value pending invokes applyFn exactly once with it,
\* clears it and cancels the outstanding frame callback; with no value pending
\* it invokes nothing
C15_FlushAppliesOnce ==
  [][VpStep("flush") =>
       /\ applied' = IF pendingViewport # NoViewport
                     THEN <<pendingViewport>> ELSE <<>>
       /\ pendingViewport' = NoViewport
       /\ vpRafId' = Null /\ vpFrames' = {}]_vars

C15_Witness ==
  /\ vpLastOp.op = "flush" /\ applied = <<"v2">>
  /\ vpFrames = {} /\ appliers = <<"tick", "flush">>

\* C16: while isPanningFast is set (from an update that measured a velocity
\* above maxPanVelocity until the stale reset or a slower update), no firing
\* of a scheduled batch callback moves an id from Pending to Rendered
C16_NoAdmissionWhileFast ==
  [][(BatchStep /\ isPanningFast /\ maxPanVelocity > 0) =>
       Keys(renderedNodes') = Rendered /\ pendingNodes' = pendingNodes]_vars

StaleStep == lastOp' = "stale" /\ now' = now

\* C17: when the stale-velocity timer clears isPanningFast with Pending
\* non-empty, a frame callback is scheduled (from which Pending drains)
C17_StaleResetResumes ==
  [][(StaleStep /\ maxPanVelocity > 0 /\ isPanningFast /\ ~isPanningFast'
        /\ Len(pendingNodes) > 0) =>
       rafId' # Null /\ frames' # {}]_vars

\* C20: at most one frame callback (batch or gradual flush) is outstanding at
\* any time, and it is the one rafId names; an id in Rendered is never queued
\* into Pending, and leaves Rendered only by an update whose visible map lacks
\* it (or by reset), so it is admitted at most once while it stays visible
C20_OneFrameOneAdmission ==
  /\ [](/\ Cardinality(frames) <= 1
        /\ \A f \in frames : f.handle = rafId
        /\ (rafId # Null) => frames # {})
  /\ [][/\ Rendered \cap (PendingIds(pendingNodes') \ Pending) = {}
        /\ \A id \in Rendered \ Keys(renderedNodes') :
             \/ UpdateStep /\ id \notin Keys(lastVisible')
             \/ lastOp' = "reset"]_vars

C20_Witness ==
  /\ lastOp = "flushGradually" /\ isFlushing
  /\ \E f \in frames : f.kind = "gradual"
  /\ accumulator > 0 /\ Rendered # {} /\ Pending # {}

\* a firing of the edge batcher's batch callback / a flush() of both batchers
EdgeBatchStep == edgeLastOp' = "batch" /\ UNCHANGED <<nodeVars, now, vpVars>>
EdgeFlushStep == edgeLastOp' = "flush" /\ lastOp' = "flush"
\* the pending edges canRender rejects, given the rendered node map
Blocked(rendered) ==
  {e \in SeqIds(pendingEdges) : ~CanRender(canRender, rendered, e)}

C11_NodeFlushTwice ==
  [][(lastOp = "flush" /\ lastOp' = "flush" /\ now' = now) =>
       /\ renderedNodes' = renderedNodes /\ pendingNodes' = pendingNodes
       /\ dirty' = dirty /\ ~notified']_vars

\* C11: for the node batcher and for the edge batcher, a flush() directly after
\* a flush() changes neither Rendered nor Pending, does not mark the snapshot
\* dirty and does not invoke onUpdate
C11_SecondFlushNoOp ==
  /\ C11_NodeFlushTwice
  /\ [](distLastOp = "flushAgain" => ~distNotified)
  /\ [][(distLastOp' = "flushAgain" /\ now' = now) =>
          /\ distRenderedEdges' = distRenderedEdges
          /\ distPendingEdges' = distPendingEdges
          /\ distDirty' = distDirty]_vars

\* C18: whenever Pending is non-empty when updateVisibleEdges returns and the
\* batcher is not velocity-gated, a scheduled callback is outstanding that will
\* admit the pending edges (the only callbacks this class schedules are its
\* stale-velocity timers; it never requests an animation frame)
C18_DrainCallbackOutstanding ==
  (distLastOp = "update" /\ Len(distPendingEdges) > 0 /\ ~distIsPanningFast)
    => distTimers # {}

\* C21: with a positive threshold and a preceding call, updateVisibleNodes
\* creates a new map exactly when, since the map of the preceding call was
\* returned, an id entered or left Rendered or Pending or a payload reference
\* changed, in this call or in a callback or flush before it; otherwise it
\* returns the cached map, the object the preceding call returned
C21_NewMapIffChanged ==
  [][(UpdateStep /\ threshold > 0 /\ cachedReturnMap # NullMap) =>
       (createdMap' <=> \/ renderedNodes # prevRenderedNodes
                        \/ renderedNodes' # renderedNodes
                        \/ pendingNodes' # pendingNodes)]_vars

C21_Witness ==
  /\ lastOp = "update" /\ ~createdMap /\ cachedReturnMap # NullMap
  /\ Rendered # {} /\ Pending # {}
  /\ \E id \in Ids : renderedNodes[id] = "o2"

\* C22: with threshold 0, updateVisibleNodes(V, ...) makes Rendered equal to V
\* and returns V, adds nothing to Pending and schedules no frame callback and
\* no timer
C22_ThresholdZeroAdmitsAll ==
  [][(UpdateStep /\ threshold = 0) =>
       /\ renderedNodes' = lastVisible'
       /\ prevRenderedNodes' = lastVisible'
       /\ pendingNodes' = pendingNodes
       /\ rafId' = rafId /\ frames' = frames
       /\ staleCheckTimeoutId' = staleCheckTimeoutId /\ timers' = timers]_vars

C22_Witness ==
  /\ lastOp = "update" /\ threshold = 0 /\ cachedReturnMap = NullMap
  /\ Rendered = Ids /\ pendingNodes = <<>> /\ frames = {} /\ timers = {}

\* no frame callback, no timer, nothing rendered and nothing pending
Quiet(fr, tm, rendered, pending) ==
  fr = {} /\ tm = {} /\ rendered = EmptyMap /\ pending = <<>>

\* C23: right after reset() or destroy(), whatever was scheduled before, no
\* frame callback and no stale-velocity timer is outstanding, Rendered and
\* Pending are empty and onUpdate was not invoked; from there every step other
\* than an updateVisibleNodes call (a second reset() or destroy() included)
\* keeps all of this
C23_TeardownCancels ==
  /\ [](lastOp \in {"reset", "destroy"} =>
          Quiet(frames, timers, renderedNodes, pendingNodes) /\ ~notified
          /\ rafId = Null /\ staleCheckTimeoutId = Null)
  /\ [][(Quiet(frames, timers, renderedNodes, pendingNodes)
         /\ lastOp' # "update") =>
          Quiet(frames', timers', renderedNodes', pendingNodes')
          /\ ~notified']_vars

C23_Witness ==
  /\ lastOp = "destroy" /\ isPanningFast = FALSE /\ lastUpdateTime = 0
  /\ prevRenderedNodes # EmptyMap /\ accumulator = 0 /\ now > 2 * TickMs

\* C24: the call that follows destroy(), whichever method it is, is a no-op:
\* Rendered and Pending stay empty, onUpdate is not invoked and no frame
\* callback or timer is scheduled
C24_NoOpAfterDestroy ==
  [][(lastOp = "destroy" /\ now' = now) =>
       Quiet(frames', timers', renderedNodes', pendingNodes')
       /\ ~notified']_vars

\* a step of the named operation of the StaggeredResizeObserver
ObsStep(op) == obsLastOp' = op

\* C25: every frame callback of the StaggeredResizeObserver makes at most
\* batchSize calls to the underlying observe(), and the elements it registers
\* are the first of the elements still enqueued, in the order they were
\* enqueued; the others stay enqueued.
C25_BatchInEnqueueOrder ==
  [][ObsStep("frame") =>
       LET reg == RegisteredBy(obsCalls')
       IN /\ Len(reg) <= obsBatchSize
          /\ reg = SubSeq(enqueued, 1, Len(reg))
          /\ enqueued' = SubSeq(enqueued, Len(reg) + 1, Len(enqueued))]_vars

\* C25, the count alone: no frame callback makes more than batchSize calls to
\* the underlying observe().
C25_AtMostBatchSize ==
  [][ObsStep("frame") => Len(RegisteredBy(obsCalls')) <= obsBatchSize]_vars

\* C26: unobserve(e) of an element that is only enqueued takes it out of the
\* queue without any call to the underlying observer, and no operation ever
\* calls the underlying observe() for an element that is not enqueued or the
\* underlying unobserve() for one that is not marked for it.
C26_WithdrawnNeverRegistered ==
  /\ [][(ObsStep("unobserve") /\ obsArg' \in pendingObserveSet) =>
          /\ obsArg' \notin pendingObserveSet'
          /\ obsCalls' = <<>>
          /\ observed' = observed
          /\ pendingUnobserve' = pendingUnobserve]_vars
  /\ [][\A i \in 1..Len(obsCalls') :
          /\ obsCalls'[i].op = "observe" => obsCalls'[i].el \in pendingObserveSet
          /\ obsCalls'[i].op = "unobserve" =>
               SetHas(pendingUnobserve, obsCalls'[i].el)]_vars

\* a frame callback passed over the entry of an element that was unobserved
\* while enqueued and registered the element enqueued after it
C26_Witness ==
  /\ obsLastOp = "frame" /\ listIndex = 2 /\ Len(pendingObserveList) > 2
  /\ pendingObserveList[1] # pendingObserveList[2]
  /\ pendingObserveList[1] \notin observed
  /\ obsCalls = <<ObserveCall(pendingObserveList[2])>>

\* C27: unobserve(e) of an element that is registered and not enqueued calls the
\* underlying unobserve(e) before it returns.
C27_UnobserveImmediate ==
  [][(ObsStep("unobserve") /\ obsArg' \notin pendingObserveSet
        /\ obsArg' \in observed) =>
       \E i \in 1..Len(obsCalls') : obsCalls'[i] = UnobserveCall(obsArg')]_vars

\* C28: flush() calls the underlying unobserve() for every element marked for it
\* and then the underlying observe() for every element still enqueued; when it
\* returns the queue is empty, hasPending() is false and no frame callback is
\* outstanding.
C28_FlushDrainsAll ==
  [][ObsStep("flush") =>
       /\ \A i \in 1..Len(pendingUnobserve) :
            obsCalls'[i] = UnobserveCall(pendingUnobserve[i])
       /\ \A e \in pendingObserveSet :
            \E i \in (Len(pendingUnobserve) + 1)..Len(obsCalls') :
              obsCalls'[i] = ObserveCall(e)
       /\ pendingObserveSet \subseteq observed'
       /\ pendingObserveList' = <<>> /\ pendingObserveSet' = {}
       /\ pendingUnobserve' = <<>>
       /\ ~hasPending(pendingObserveSet', pendingUnobserve')
       /\ obsFrames' = {} /\ obsRafId' = Null]_vars

\* flush() made the pending unobserve of a registered element and then
\* registered the enqueued element
C28_Witness ==
  /\ obsLastOp = "flush"
  /\ Len(obsCalls) = 2
  /\ obsCalls[1].op = "unobserve" /\ obsCalls[2].op = "observe"
  /\ obsCalls[1].el # obsCalls[2].el
  /\ observed = {obsCalls[2].el}

\* C29: unobserve(e) of an element never given to observe() leaves no pending
\* work: hasPending() is unchanged and no frame callback is scheduled.
C29_UnobserveUnknownNoOp ==
  [][(obsLastOp = "new" /\ ObsStep("unobserve")) =>
       /\ hasPending(pendingObserveSet', pendingUnobserve')
            = hasPending(pendingObserveSet, pendingUnobserve)
       /\ obsFrames' = obsFrames]_vars

\* C30: whenever Pending is non-empty a batch or gradual-flush frame callback
\* or a stale-velocity timer is outstanding, and isFlushing is true only while
\* a gradual-flush frame callback is outstanding.
C30_PendingHasDriver ==
  /\ Len(pendingNodes) > 0 => frames # {} \/ timers # {}
  /\ isFlushing => \E f \in frames : f.kind = "gradual"

\* C30, the part about Pending alone
C30_AdmissionNeverStalls ==
  Len(pendingNodes) > 0 => frames # {} \/ timers # {}

C35_ObservedEventuallyRegistered ==
  \A e \in Elements :
    (obsLastOp = "observe" /\ obsArg = e) ~>
      \/ e \in observed
      \/ obsLastOp \notin {"observe", "frame"}
      \/ obsLastOp = "observe" /\ obsArg # e

\* the frame callback of flushGradually that rafId names is outstanding
GradualOutstanding ==
  \E f \in frames : f.kind = "gradual" /\ f.handle = rafId

PendingOrder(p) == [i \in 1..Len(p) |-> p[i].id]

\* C38: a batch or gradual-flush callback admits a front part of Pending and
\* leaves the rest in place; an update keeps the entries that stay pending in
\* their order, payload refreshes included, and puts new entries behind them.
C38_AdmissionFifo ==
  /\ [][lastOp' \in {"batch", "gradual"} =>
          \E k \in 0..Len(pendingNodes) :
            /\ pendingNodes' = SubSeq(pendingNodes, k + 1, Len(pendingNodes))
            /\ Keys(renderedNodes') =
                 Rendered \cup {pendingNodes[i].id : i \in 1..k}]_vars
  /\ [][UpdateStep =>
          LET old == PendingOrder(pendingNodes)
              new == PendingOrder(pendingNodes')
              kept == SelectSeq(old, LAMBDA x : x \in PendingIds(pendingNodes'))
          IN /\ Len(kept) <= Len(new)
             /\ SubSeq(new, 1, Len(kept)) = kept
             /\ \A i \in (Len(kept) + 1)..Len(new) : new[i] \notin Pending]_vars

\* after a callback admitted ids, an id larger than the one at the front of
\* Pending is rendered and the front entry carries a refreshed payload
C38_Witness ==
  /\ lastOp \in {"batch", "gradual"} /\ notified
  /\ pendingNodes # <<>> /\ pendingNodes[1].node = "o2"
  /\ \E id \in Rendered : id > pendingNodes[1].id /\ lastVisible[id] = "o1"
  /\ lastVisible[pendingNodes[1].id] = "o2"

\* C39: the map updateVisibleNodes returns has exactly the ids of Rendered.
C39_ReturnsRendered ==
  lastOp = "update" => Keys(prevRenderedNodes) = Rendered

\* a step of updateVisibleEdges of the call-driven edge batcher
DistUpdateStep == distLastOp' = "update" /\ now' = now

\* edges that one call certainly moved from Pending to Rendered: those pending
\* before the call and rendered after it and, when the call queued new edges
\* (so that it did not take the immediate path), the other edges it rendered
DistMoved ==
  LET before == PendingIds(distPendingEdges)
      queued == PendingIds(distPendingEdges') \ before
  IN (before \cap Keys(distRenderedEdges'))
       \cup (IF queued # {}
             THEN Keys(distRenderedEdges') \ (Keys(distRenderedEdges) \cup before)
             ELSE {})

\* C33: one updateVisibleEdges call of the call-driven edge batcher moves at
\* most batchSize edges from Pending to Rendered.
C33_OneBatchPerCall ==
  [][(DistUpdateStep /\ distThreshold > 0) =>
       Cardinality(DistMoved) <= distBatchSize]_vars

\* C34: when updateVisibleEdges(V) of the call-driven edge batcher returns,
\* every id in Rendered maps to the payload V holds for it.
C34_RenderedPayloadCurrent ==
  distLastOp = "update" =>
    \A id \in Keys(distRenderedEdges) :
      distRenderedEdges[id] = distLastVisible[id]

\* C32: no edge id of the frame-driven edge batcher is in both Pending and
\* Rendered.
C32_PendingRenderedDisjoint ==
  SeqIds(pendingEdges) \cap renderedEdges = {}

\* C31: once no frame callback of the store's ViewportBatcher is outstanding,
\* the store's _viewport is the value most recently given to the viewport
\* setter, whichever way it was assigned
C31_LastAssignedWins ==
  vpFrames = {} => storeViewport = lastAssigned

\* C36: a viewport that applyFn passed to schedule() while a frame callback
\* was applying the previous value is the pending viewport when the callback
\* returns, and a frame is requested for it
C36_ReentrantScheduleKept ==
  (vpLastOp.op = "tick" /\ vpLastOp.arg # NoViewport)
    => (pendingViewport = vpLastOp.arg /\ vpRafId # Null /\ vpFrames # {})

====
